---- MODULE Spec2Model ----
(***************************************************************************)
(* Notebook view-model (NotebookViewModel) and notebook editor             *)
(* (NotebookEditorViewModel) of data-forge-notebook.                       *)
(*                                                                         *)
(* Notebook objects live in `notebooks`, indexed by instance; the editor   *)
(* holds at most one of them in `notebook`.  Editor commands are async     *)
(* functions: a call in flight is an element of the bag `tasks`, and the   *)
(* code of a command is cut into one action per stretch between two awaits *)
(* at which something else can run.                                        *)
(***************************************************************************)
EXTENDS Integers, Sequences, FiniteSets, Bags, TLC

(***************************************************************************)
(* Bounds                                                                  *)
(***************************************************************************)
NumCells == 3
MaxInstances == 3
NumTasks == 2

CellObjs == 1..NumCells
Instances == 1..MaxInstances

\* JavaScript `undefined`, for a cell reference and for the open notebook.
Undefined == 0

\* A cell that holds no outputs and no errors.
NoResults == [outputs |-> 0, errors |-> 0]

VARIABLES
    notebooks,      \* instance -> the fields of that NotebookViewModel
    cellSelected,   \* cell object -> the cell's own selected flag
    cellExecuting,  \* cell object -> the cell's own executing flag
    cellResults,    \* cell object -> the outputs and errors the cell holds
    nbResult,       \* how the last notebook operation ended: "ok" / "throw"
    nbEvents,       \* events the last notebook operation raised, in order
    nbReturn,       \* value the last notebook operation returned
    notebook,       \* NotebookEditorViewModel.notebook (Undefined or instance)
    working,        \* NotebookEditorViewModel.working
    storage,        \* storage id -> stored document
    tasks,          \* the editor commands in flight (a bag), each at an await
    returned,       \* result and last events of a command that just returned
    engine          \* the evaluations the engine still owes a completion for

vars == <<notebooks, cellSelected, cellExecuting, cellResults, nbResult,
          nbEvents,
          nbReturn, notebook, working, storage, tasks, returned, engine>>

nbVars == <<notebooks, cellSelected, cellExecuting, cellResults, nbResult,
           nbEvents,
           nbReturn>>
edVars == <<notebook, working, storage, tasks, returned, engine>>

(***************************************************************************)
(* JavaScript array helpers                                                *)
(***************************************************************************)
\* Array.prototype.indexOf, 0-based, -1 when absent.
IndexOf(s, x) ==
    IF \E i \in 1..Len(s) : s[i] = x
    THEN (CHOOSE i \in 1..Len(s) : s[i] = x /\ \A j \in 1..(i-1) : s[j] # x) - 1
    ELSE -1

\* The start index of Array.prototype.splice after normalisation.
SpliceStart(start, len) ==
    IF start < 0 THEN (IF len + start < 0 THEN 0 ELSE len + start)
    ELSE (IF start > len THEN len ELSE start)

\* A splice that ignores the start index and inserts at the end.
SpliceAtEnd(s, start, x) == Append(s, x)

\* s.splice(start, 0, x)
SpliceIn(s, start, x) ==
    LET k == SpliceStart(start, Len(s))
    IN  SubSeq(s, 1, k) \o <<x>> \o SubSeq(s, k+1, Len(s))

\* The element s.splice(start, 1) removes (Undefined when there is none).
SpliceRemoved(s, start) ==
    LET k == SpliceStart(start, Len(s))
    IN  IF k < Len(s) THEN s[k+1] ELSE Undefined

\* s after s.splice(start, 1)
SpliceOut(s, start) ==
    LET k == SpliceStart(start, Len(s))
    IN  IF k < Len(s) THEN SubSeq(s, 1, k) \o SubSeq(s, k+2, Len(s)) ELSE s

(***************************************************************************)
(* Cells                                                                   *)
(***************************************************************************)
\* cell.getId(): every cell object carries its own id.
IdOf(c) == c

(***************************************************************************)
(* NotebookViewModel                                                       *)
(***************************************************************************)
\* The language deserialize gives a document that names none.
DefaultLanguage == "javascript"

\* The slot of an instance that has not been constructed (or was dropped).
NoNotebook ==
    [alive |-> FALSE, storageId |-> 0, cells |-> <<>>, hooked |-> {},
     selectedCell |-> Undefined, modified |-> FALSE, unsaved |-> FALSE,
     readOnly |-> FALSE, executing |-> FALSE, nodejsVersion |-> Undefined,
     language |-> DefaultLanguage]

\* constructor: modified starts false, every cell passed in is hooked.
NotebookViewModel(storageId, cells, unsaved, readOnly) ==
    [alive |-> TRUE, storageId |-> storageId, cells |-> cells,
     hooked |-> {cells[i] : i \in 1..Len(cells)},
     selectedCell |-> Undefined, modified |-> FALSE, unsaved |-> unsaved,
     readOnly |-> readOnly, executing |-> FALSE, nodejsVersion |-> Undefined,
     language |-> DefaultLanguage]

\* A notebook operation yields the notebook, the cells' selected flags, the
\* way it ended and the events it raised.
Outcome(nb, sel, result, events) ==
    [nb |-> nb, sel |-> sel, result |-> result, events |-> events]

\* setModified: nothing happens when the value is unchanged.
setModifiedAlways(nb, modified) ==
    [nb |-> [nb EXCEPT !.modified = modified], events |-> <<"modified">>]

setModified(nb, modified) ==
    IF nb.modified = modified
    THEN [nb |-> nb, events |-> <<>>]
    ELSE [nb |-> [nb EXCEPT !.modified = modified], events |-> <<"modified">>]

notifyModified(nb) == setModified(nb, TRUE)

clearModified(nb) == setModified(nb, FALSE)

\* setNodejsVersion: the version is stored and the notebook is modified.
setNodejsVersionQuiet(nb, version) ==
    [nb |-> [nb EXCEPT !.nodejsVersion = version], events |-> <<>>]

setNodejsVersion(nb, version) ==
    notifyModified([nb EXCEPT !.nodejsVersion = version])

\* onCellModified: a cell the notebook is hooked to was modified.
onCellModified(nb, cell) == notifyModified(nb)

\* deselect: the selected cell is told to deselect, then forgotten.
deselect(nb, sel) ==
    IF nb.selectedCell # Undefined
    THEN [nb |-> [nb EXCEPT !.selectedCell = Undefined],
          sel |-> [sel EXCEPT ![nb.selectedCell] = FALSE]]
    ELSE [nb |-> nb, sel |-> sel]

\* onEditorSelectionChanging, for a cell the notebook is hooked to.
onEditorSelectionChanging(nb, sel, cell, willBeSelected) ==
    IF willBeSelected THEN deselect(nb, sel) ELSE [nb |-> nb, sel |-> sel]

\* onEditorSelectionChanged, for a cell the notebook is hooked to.
onEditorSelectionChangedAlways(nb, cell) ==
    [nb |-> [nb EXCEPT !.selectedCell = cell],
     events |-> <<"selectedCellChanged">>]

onEditorSelectionChanged(nb, cell) ==
    IF nb.selectedCell = cell
    THEN [nb |-> nb, events |-> <<>>]
    ELSE [nb |-> [nb EXCEPT !.selectedCell = cell],
          events |-> <<"selectedCellChanged">>]

\* cell.select(): the cell notifies that it is about to be selected, sets its
\* flag and notifies that the selection is committed.  Only a notebook that
\* is hooked to the cell hears the notifications.
cellSelect(nb, sel, cell) ==
    IF cell \in nb.hooked
    THEN LET d == onEditorSelectionChanging(nb, sel, cell, TRUE)
             c == onEditorSelectionChanged(d.nb, cell)
         IN  [nb |-> c.nb, sel |-> [d.sel EXCEPT ![cell] = TRUE],
              events |-> c.events]
    ELSE [nb |-> nb, sel |-> [sel EXCEPT ![cell] = TRUE], events |-> <<>>]

\* getCellByIndex
getCellByIndex(nb, cellIndex) ==
    IF cellIndex >= 0 /\ cellIndex < Len(nb.cells)
    THEN nb.cells[cellIndex + 1]
    ELSE Undefined

\* TRUE when the array holds an undefined element, on which any method call
\* (getId, flushChanges) throws a TypeError.
HasHole(cells) == \E i \in 1..Len(cells) : cells[i] = Undefined

\* flushChanges raises the event, then flushes every cell in order.
flushChanges(nb) ==
    [result |-> IF HasHole(nb.cells) THEN "throw" ELSE "ok",
     events |-> <<"flushChanges">>]

\* An addCell without the range check: splice clamps the index.
addCellUnchecked(nb, sel, cellViewModel, cellIndex) ==
    LET added == [nb EXCEPT !.hooked = @ \cup {cellViewModel},
                            !.cells = SpliceIn(@, cellIndex, cellViewModel)]
        m == notifyModified(added)
    IN  Outcome(m.nb, sel, "ok",
                <<"flushChanges", "cellsChanged">> \o m.events)

\* addCell
addCell(nb, sel, cellViewModel, cellIndex) ==
    LET hooked == [nb EXCEPT !.hooked = @ \cup {cellViewModel}]
        flush  == flushChanges(hooked)
    IN  IF flush.result = "throw" \/ cellIndex > Len(nb.cells)
        THEN Outcome(hooked, sel, "throw", flush.events)
        ELSE LET added == [hooked EXCEPT
                             !.cells = SpliceIn(@, cellIndex, cellViewModel)]
                 m == notifyModified(added)
             IN  Outcome(m.nb, sel, "ok",
                         flush.events \o <<"cellsChanged">> \o m.events)

\* A choice of the next cell that never steps back from the end.
nextSelectedCellNoStepBack(cells, cell, selectNextCell) == IndexOf(cells, cell)

\* The index deleteCell selects afterwards, -1 for none.
nextSelectedCell(cells, cell, selectNextCell) ==
    LET cellIndex == IndexOf(cells, cell)
    IN  IF selectNextCell /\ cellIndex >= Len(cells) - 1
        THEN (IF cellIndex > 0 THEN cellIndex - 1 ELSE -1)
        ELSE cellIndex

\* A deleteCell that takes an absent cell for removed.
deleteCellIgnoresAbsent(nb, sel, cell, selectNextCell) ==
    LET removed == [nb EXCEPT
                      !.hooked = @ \ {cell},
                      !.cells  = SelectSeq(@, LAMBDA c : IdOf(c) # IdOf(cell))]
        m == notifyModified(removed)
    IN  Outcome(m.nb, sel, "ok", <<"cellsChanged">> \o m.events)

\* deleteCell
deleteCell(nb, sel, cell, selectNextCell) ==
    LET next         == nextSelectedCell(nb.cells, cell, selectNextCell)
        cellId       == IdOf(cell)
        cellsRemoved == SelectSeq(nb.cells, LAMBDA c : IdOf(c) = cellId)
    IN  IF HasHole(nb.cells) \/ cellsRemoved = <<>>
        THEN Outcome(nb, sel, "throw", <<>>)
        ELSE LET removed == [nb EXCEPT
                    !.hooked = @ \ {cellsRemoved[1]},
                    !.cells  = SelectSeq(@, LAMBDA c : IdOf(c) # cellId)]
                 nextFocusedCell == IF selectNextCell /\ next >= 0
                                    THEN getCellByIndex(removed, next)
                                    ELSE Undefined
                 s == IF nextFocusedCell # Undefined
                      THEN cellSelect(removed, sel, nextFocusedCell)
                      ELSE [nb |-> removed, sel |-> sel, events |-> <<>>]
                 m == notifyModified(s.nb)
             IN  Outcome(m.nb, s.sel, "ok",
                         <<"cellsChanged">> \o s.events \o m.events)

\* A moveCell that swaps the two positions.
moveCellSwap(nb, sel, sourceIndex, destIndex) ==
    LET valid(i) == i >= 0 /\ i < Len(nb.cells)
        swapped == IF valid(sourceIndex) /\ valid(destIndex)
                   THEN [nb.cells EXCEPT
                           ![sourceIndex + 1] = nb.cells[destIndex + 1],
                           ![destIndex + 1] = nb.cells[sourceIndex + 1]]
                   ELSE nb.cells
        m == notifyModified([nb EXCEPT !.cells = swapped])
    IN  Outcome(m.nb, sel, "ok", <<"cellsChanged">> \o m.events)

\* A moveCell that moves the cell one place short of a later position.
moveCellStopsShort(nb, sel, sourceIndex, destIndex) ==
    LET movedCell == SpliceRemoved(nb.cells, sourceIndex)
        to == IF destIndex > sourceIndex THEN destIndex - 1 ELSE destIndex
        m == notifyModified([nb EXCEPT !.cells =
                SpliceIn(SpliceOut(nb.cells, sourceIndex), to, movedCell)])
    IN  Outcome(m.nb, sel, "ok", <<"cellsChanged">> \o m.events)

\* moveCell
moveCell(nb, sel, sourceIndex, destIndex) ==
    LET movedCell == SpliceRemoved(nb.cells, sourceIndex)
        reorderedCells == SpliceIn(SpliceOut(nb.cells, sourceIndex),
                                   destIndex, movedCell)
        m == notifyModified([nb EXCEPT !.cells = reorderedCells])
    IN  Outcome(m.nb, sel, "ok", <<"cellsChanged">> \o m.events)

\* The outcome of a query of the notebook: how it ended and what it
\* returned.
Answer(result, value) == [result |-> result, value |-> value]

\* What findCellIndex produces besides an index: undefined, or the
\* TypeError of calling getId on an undefined element.
NoIndex == 0 - 1
TypeError == 0 - 2

\* The while loop of findCellIndex from position cellIndex on (0-based).
RECURSIVE findCellIndexFrom(_, _, _)
findCellIndexFrom(cells, cellIndex, cellId) ==
    IF cellIndex < Len(cells)
    THEN IF cells[cellIndex + 1] = Undefined
         THEN TypeError
         ELSE IF IdOf(cells[cellIndex + 1]) = cellId
              THEN cellIndex
              ELSE findCellIndexFrom(cells, cellIndex + 1, cellId)
    ELSE NoIndex

findCellIndex(nb, cellId) == findCellIndexFrom(nb.cells, 0, cellId)

findCell(nb, cellId) ==
    LET cellIndex == findCellIndex(nb, cellId)
    IN  IF cellIndex = TypeError THEN Answer("throw", Undefined)
        ELSE IF cellIndex = NoIndex THEN Answer("ok", Undefined)
        ELSE Answer("ok", nb.cells[cellIndex + 1])

findNextCellSame(nb, cellId) ==
    LET cellIndex == findCellIndex(nb, cellId)
    IN  IF cellIndex = TypeError THEN Answer("throw", Undefined)
        ELSE IF cellIndex = NoIndex THEN Answer("ok", Undefined)
        ELSE Answer("ok", nb.cells[cellIndex + 1])

findNextCell(nb, cellId) ==
    LET cellIndex == findCellIndex(nb, cellId)
    IN  IF cellIndex = TypeError THEN Answer("throw", Undefined)
        ELSE IF cellIndex = NoIndex THEN Answer("ok", Undefined)
        ELSE LET nextCellIndex == cellIndex + 1
             IN  IF nextCellIndex < Len(nb.cells)
                 THEN Answer("ok", nb.cells[nextCellIndex + 1])
                 ELSE Answer("ok", Undefined)

findPrevCell(nb, cellId) ==
    LET cellIndex == findCellIndex(nb, cellId)
    IN  IF cellIndex = TypeError THEN Answer("throw", Undefined)
        ELSE IF cellIndex = NoIndex THEN Answer("ok", Undefined)
        ELSE LET prevCellIndex == cellIndex - 1
             IN  IF prevCellIndex >= 0
                 THEN Answer("ok", nb.cells[prevCellIndex + 1])
                 ELSE Answer("ok", Undefined)

(***************************************************************************)
(* Notebook operations as actions, on the notebook under test              *)
(***************************************************************************)
MaxCells == 3
Indices == (0 - 1)..(MaxCells + 1)

TheNotebook == 1

Apply(n, out) ==
    /\ notebooks' = [notebooks EXCEPT ![n] = out.nb]
    /\ cellSelected' = out.sel
    /\ UNCHANGED <<cellExecuting, cellResults>>
    /\ nbReturn' = Undefined
    /\ nbResult' = out.result
    /\ nbEvents' = out.events

AddCell(n) ==
    \E c \in CellObjs, i \in Indices :
        /\ Len(notebooks[n].cells) < MaxCells
        /\ Apply(n, addCell(notebooks[n], cellSelected, c, i))
        /\ UNCHANGED edVars

DeleteCell(n) ==
    \E c \in CellObjs, selectNextCell \in BOOLEAN :
        /\ Apply(n, deleteCell(notebooks[n], cellSelected, c, selectNextCell))
        /\ UNCHANGED edVars

MoveCell(n) ==
    \E src \in Indices, dst \in Indices :
        /\ Len(notebooks[n].cells) < MaxCells + 1
        /\ Apply(n, moveCell(notebooks[n], cellSelected, src, dst))
        /\ UNCHANGED edVars

\* moveCell called with the indices of two cells of the notebook.
MoveCellInRange(n) ==
    \E src \in 0..(Len(notebooks[n].cells) - 1),
       dst \in 0..(Len(notebooks[n].cells) - 1) :
        /\ Apply(n, moveCell(notebooks[n], cellSelected, src, dst))
        /\ UNCHANGED edVars

\* A hooked cell reports that its selection is about to change.
SelectionChanging(n) ==
    \E c \in notebooks[n].hooked, willBeSelected \in BOOLEAN :
        LET d == onEditorSelectionChanging(notebooks[n], cellSelected, c,
                                           willBeSelected)
        IN  /\ Apply(n, Outcome(d.nb, d.sel, "ok", <<>>))
            /\ UNCHANGED edVars

\* A hooked cell reports its committed selection.
SelectionChanged(n) ==
    \E c \in notebooks[n].hooked :
        LET s == onEditorSelectionChanged(notebooks[n], c)
        IN  /\ Apply(n, Outcome(s.nb, [cellSelected EXCEPT ![c] = TRUE],
                                "ok", s.events))
            /\ UNCHANGED edVars

\* cell.select() on any cell object.
CellSelect(n) ==
    \E c \in CellObjs :
        LET s == cellSelect(notebooks[n], cellSelected, c)
        IN  /\ Apply(n, Outcome(s.nb, s.sel, "ok", s.events))
            /\ UNCHANGED edVars

Deselect(n) ==
    LET d == deselect(notebooks[n], cellSelected)
    IN  /\ Apply(n, Outcome(d.nb, d.sel, "ok", <<>>))
        /\ UNCHANGED edVars

(***************************************************************************)
(* Storage (INotebookRepository) and serialization                         *)
(***************************************************************************)
NumStorageIds == 2
StorageIds == 1..NumStorageIds

\* The storage id makeUntitledNotebookId returns.
UntitledId == 0

\* A serialized cell whose cellType is neither code nor markdown.
BadCell == 0 - 1

NoFile == [exists |-> FALSE, cells |-> <<>>, readOnly |-> FALSE]

File(cells, readOnly) == [exists |-> TRUE, cells |-> cells, readOnly |-> readOnly]

\* The file a storage id names; the untitled id names none.
FileAt(storageId) ==
    IF storageId \in StorageIds THEN storage[storageId] ELSE NoFile

\* serialize / serializeForEval: the cells in document order.
serialize(nb) == nb.cells

serializeForEval(nb) == nb.cells

\* cellViewModelFactory throws on a cell of unexpected type.
deserializeThrows(doc) == \E i \in 1..Len(doc) : doc[i] = BadCell

\* deserialize
deserialize(storageId, unsaved, readOnly, doc) ==
    NotebookViewModel(storageId, doc, unsaved, readOnly)

\* The id of the code cell of newNotebookTemplate.
TemplateCell == NumCells

newNotebookTemplate == <<TemplateCell>>

(***************************************************************************)
(* NotebookEditorViewModel: commands in flight                             *)
(***************************************************************************)
ReplacingCmds == {"newNotebook", "openNotebook", "openSpecificNotebook",
                  "reloadNotebook"}
SaveCmds == {"saveNotebook", "saveNotebookAs"}
EvalCmds == {"evaluateNotebook", "evaluateToCell", "evaluateSingleCell"}

\* The methods of the notebook that are called on it directly.
NbCmds == {"save", "saveAs"}

\* An event a command emits: a collaborator call or an event raised.
Ev(e, a) == [e |-> e, a |-> a]

IdleTask ==
    [cmd |-> "none", pc |-> "idle", nb |-> Undefined, sid |-> UntitledId,
     proceed |-> FALSE, saveAs |-> FALSE, doc |-> <<>>, cell |-> Undefined,
     result |-> "none", trace |-> <<>>]

\* The commands in flight, each suspended at an await.
Tasks == BagToSet(tasks)

\* Positions where a command waits only on a promise that is already
\* settled (the return of promptSave, of checkCanEvaluateNotebook): its
\* continuation is a microtask, which runs before the next user action,
\* I/O completion or engine event is dispatched.
MicroPcs == {"prompted", "evalChecked"}

Urgent == \E t \in Tasks : t.pc \in MicroPcs

\* The tasks whose next step may be taken now.
Runnable == IF Urgent THEN {t \in Tasks : t.pc \in MicroPcs} ELSE Tasks

\* Another command can be called.
CanStart == ~Urgent /\ BagCardinality(tasks) < NumTasks

\* The task at the start of a step: `trace` collects what the step emits.
Cur(t) == [t EXCEPT !.trace = <<>>]

Begin(cmd) == [IdleTask EXCEPT !.cmd = cmd]

Emit(tk, events) == [tk EXCEPT !.trace = @ \o events]

\* The command returns (or throws).
Done(tk, result) == [tk EXCEPT !.pc = "done", !.result = result]

\* No command returned in the last step.
NoReturn == [result |-> "none", trace |-> <<>>]

\* A busy flag that is never set.
neverWorking(w) == FALSE

\* get isWorking
isWorking(w) == w > 0

\* startBlockingTask: the counter after the call.
startBlockingTask(w) == w + 1

\* An endBlockingTask that forgets to decrement.
endBlockingTaskKeeps(w) == w

\* endBlockingTask: the counter after the call.
endBlockingTask(w) == w - 1

\* What start/endBlockingTask emit.
startBlockingTaskEvents(w) == <<Ev("startBlockingTask", 0)>>

endBlockingTaskEvents(w) == <<Ev("endBlockingTask", 0)>>

\* The notebooks some live reference can still reach.
Reachable(nbk, tks) ==
    {nbk} \cup {t.nb : t \in BagToSet(tks)}

\* Notebook objects nothing refers to are dropped.
Collect(nbs, nbk, tks) ==
    [n \in Instances |-> IF n \in Reachable(nbk, tks) THEN nbs[n] ELSE NoNotebook]

\* promptSave up to its first await.
promptSave(tk) ==
    IF notebook = Undefined \/ ~notebooks[notebook].modified
    THEN [tk EXCEPT !.pc = "prompted"]
    ELSE [Emit(tk, <<Ev("confirmationDialog", 0)>>) EXCEPT !.pc = "confirmDialog"]

\* The busy rejection every command starts with.
rejectBusy(tk, result) == Done(Emit(tk, <<Ev("warn", 0)>>), result)

\* saveNotebook / saveNotebookAs return: to promptSave, which lets the
\* operation proceed, or to the caller of the command.
saveReturn(tk) ==
    IF tk.cmd \in ReplacingCmds
    THEN [tk EXCEPT !.pc = "prompted", !.nb = Undefined,
                    !.saveAs = FALSE, !.doc = <<>>, !.sid = IdleTask.sid]
    ELSE Done(tk, "void")

\* saveNotebookAs up to its first await.
saveNotebookAsBody(tk) ==
    IF isWorking(working) THEN saveReturn(Emit(tk, <<Ev("warn", 0)>>))
    ELSE IF notebook = Undefined THEN saveReturn(Emit(tk, <<Ev("warn", 0)>>))
    ELSE [Emit(tk, <<Ev("saveAsDialog", 0)>>) EXCEPT !.pc = "saveAsDialog"]

\* notebook._save up to its first await, inside flushChanges.
saveBegin(tk, n, storageId, isSaveAs) ==
    [Emit(tk, <<Ev("flushChanges", n)>>) EXCEPT
        !.pc = "saveFlush", !.nb = n, !.sid = storageId, !.saveAs = isSaveAs]

\* notebook.save up to its first await: it throws for a read-only notebook
\* and for one that was never saved, and goes on to _save otherwise.
saveUnguarded(tk, n) ==
    saveBegin(tk, n, notebooks[n].storageId, FALSE)

save(tk, n) ==
    IF notebooks[n].readOnly
    THEN Done(Emit(tk, <<Ev("ReadOnlyViolation", n)>>), "throw")
    ELSE IF notebooks[n].unsaved
    THEN Done(Emit(tk, <<Ev("NeverSaved", n)>>), "throw")
    ELSE saveBegin(tk, n, notebooks[n].storageId, FALSE)

\* saveNotebook up to its first await.
saveNotebookInPlace(tk) ==
    IF isWorking(working) THEN saveReturn(Emit(tk, <<Ev("warn", 0)>>))
    ELSE IF notebook = Undefined THEN saveReturn(Emit(tk, <<Ev("warn", 0)>>))
    ELSE save(tk, notebook)

saveNotebookBody(tk) ==
    IF isWorking(working) THEN saveReturn(Emit(tk, <<Ev("warn", 0)>>))
    ELSE IF notebook = Undefined THEN saveReturn(Emit(tk, <<Ev("warn", 0)>>))
    ELSE IF notebooks[notebook].unsaved \/ notebooks[notebook].readOnly
         THEN saveNotebookAsBody(tk)
         ELSE save(tk, notebook)

\* What a command that returned in this step returned and emitted last.
Returned(tk) == [result |-> tk.result, trace |-> tk.trace]

\* A command was called and ran up to its first await, or returned before
\* it reached one.
StartTask(tk) ==
    IF tk.pc = "done"
    THEN /\ tasks' = tasks
         /\ returned' = Returned(tk)
    ELSE /\ tasks' = tasks (+) SetToBag({tk})
         /\ returned' = NoReturn

\* Task t ran from one await to the next, or to its return.
SetTask(t, tk) ==
    IF tk.pc = "done"
    THEN /\ tasks' = tasks (-) SetToBag({t})
         /\ returned' = Returned(tk)
    ELSE /\ tasks' = (tasks (-) SetToBag({t})) (+) SetToBag({tk})
         /\ returned' = NoReturn

(***************************************************************************)
(* Commands: the code from the call to the first await                     *)
(***************************************************************************)
newNotebook ==
    /\ CanStart
    /\ StartTask(IF isWorking(working)
                  THEN rejectBusy(Begin("newNotebook"), "undefined")
                  ELSE promptSave(Begin("newNotebook")))
    /\ UNCHANGED <<notebook, working, storage, engine, nbVars>>

openNotebook ==
    /\ CanStart
    /\ StartTask(IF isWorking(working)
                  THEN rejectBusy(Begin("openNotebook"), "undefined")
                  ELSE promptSave(Begin("openNotebook")))
    /\ UNCHANGED <<notebook, working, storage, engine, nbVars>>

openSpecificNotebook ==
    /\ CanStart
    /\ StartTask(IF isWorking(working)
                  THEN rejectBusy(Begin("openSpecificNotebook"), "undefined")
                  ELSE promptSave(Begin("openSpecificNotebook")))
    /\ UNCHANGED <<notebook, working, storage, engine, nbVars>>

reloadNotebook ==
    /\ CanStart
    /\ StartTask(IF isWorking(working)
                  THEN rejectBusy(Begin("reloadNotebook"), "void")
                  ELSE IF notebook = Undefined
                  THEN Done(Emit(Begin("reloadNotebook"), <<Ev("warn", 0)>>), "void")
                  ELSE promptSave(Begin("reloadNotebook")))
    /\ UNCHANGED <<notebook, working, storage, engine, nbVars>>

saveNotebook ==
    /\ CanStart
    /\ StartTask(saveNotebookBody(Begin("saveNotebook")))
    /\ UNCHANGED <<notebook, working, storage, engine, nbVars>>

saveNotebookAs ==
    /\ CanStart
    /\ StartTask(saveNotebookAsBody(Begin("saveNotebookAs")))
    /\ UNCHANGED <<notebook, working, storage, engine, nbVars>>

(***************************************************************************)
(* Commands: the code between two awaits                                   *)
(***************************************************************************)
\* A try block without the catch: the exception reaches the caller.
failInTryUncaught(tk, failed) ==
    Done(Emit(tk, <<Ev(failed, 0)>> \o endBlockingTaskEvents(working)), "throw")

\* An exception inside the try block of newNotebook (finally only: it
\* propagates) or of internalOpenNotebook (caught, logged, notified).
\* In both the finally block ends the blocking task.  The step records
\* first what failed.
failInTry(tk, failed) ==
    IF tk.cmd = "newNotebook"
    THEN Done(Emit(tk, <<Ev(failed, 0)>> \o endBlockingTaskEvents(working)),
              "throw")
    ELSE Done(Emit(tk, <<Ev(failed, 0), Ev("log.error", 0),
                         Ev("log.error", 0), Ev("notification.error", 0)>>
                       \o endBlockingTaskEvents(working)), "undefined")

\* A command that goes on after promptSave returned false.
cancelledProceeds(tk) == [tk EXCEPT !.pc = "prompted"]

\* promptSave returned false: the command gives up.  newNotebook and the
\* open commands return undefined, reloadNotebook returns nothing.
cancelled(tk) ==
    Done(tk, IF tk.cmd = "reloadNotebook" THEN "void" ELSE "undefined")

\* The user answers the confirmation dialog of promptSave; the answer is
\* the first thing the step records.
ConfirmChoice(t) ==
    /\ t.pc = "confirmDialog"
    /\ \E choice \in {"Save", "Don't save", "Cancel"} :
         LET tk == Emit(Cur(t), <<Ev(choice, 0)>>)
         IN  SetTask(t, CASE choice = "Save" -> saveNotebookBody(tk)
                          [] choice = "Cancel" -> cancelled(tk)
                          [] OTHER -> [tk EXCEPT !.pc = "prompted"])
    /\ UNCHANGED <<notebook, working, storage, engine, nbVars>>

\* The storage id the command goes on with: newNotebook makes an untitled
\* one, reloadNotebook takes the open notebook's, openSpecificNotebook uses
\* its argument here for the first time.
OpenTargets(cmd) ==
    CASE cmd = "newNotebook" -> {UntitledId}
      [] cmd = "reloadNotebook" -> {notebooks[notebook].storageId}
      [] OTHER -> StorageIds

\* setNotebook up to its first await: will-change is raised.
setNotebookBegin(tk, n) ==
    [Emit(tk, <<Ev("willChange", 0)>>) EXCEPT !.pc = "setNbWillChange", !.nb = n]

\* The isReload argument of setNotebook: true from reloadNotebook only.
isReload(tk) == tk.cmd = "reloadNotebook"

\* The instance of the next notebook constructed: notebook objects that
\* nothing refers to any more free theirs.
FreeInstances == {n \in Instances : ~notebooks[n].alive}

nextInstance == CHOOSE n \in FreeInstances : \A m \in FreeInstances : n <= m

\* Constructs a notebook from a document; its cells are new objects.
Construct(storageId, unsaved, readOnly, doc) ==
    /\ FreeInstances # {}
    /\ notebooks' = [notebooks EXCEPT ![nextInstance] =
                        deserialize(storageId, unsaved, readOnly, doc)]
    /\ cellSelected' = [c \in CellObjs |->
                          IF \E i \in 1..Len(doc) : doc[i] = c
                          THEN FALSE ELSE cellSelected[c]]
    /\ cellResults' = [c \in CellObjs |->
                          IF \E i \in 1..Len(doc) : doc[i] = c
                          THEN NoResults ELSE cellResults[c]]
    /\ cellExecuting' = [c \in CellObjs |->
                          IF \E i \in 1..Len(doc) : doc[i] = c
                          THEN FALSE ELSE cellExecuting[c]]

\* startBlockingTask and the code that follows it up to the next await
\* that another command can observe: newNotebook deserializes the template
\* and calls setNotebook, internalOpenNotebook calls readNotebook.  The
\* code after the await inside startBlockingTask touches the command's own
\* locals only.
beginBlocking(t, tk, storageId) ==
    LET started == Emit(tk, startBlockingTaskEvents(working))
    IN  /\ working' = startBlockingTask(working)
        /\ IF tk.cmd = "newNotebook"
           THEN /\ Construct(UntitledId, TRUE, FALSE, newNotebookTemplate)
                /\ SetTask(t, setNotebookBegin(started, nextInstance))
           ELSE /\ SetTask(t, [Emit(started, <<Ev("readNotebook", storageId)>>)
                                  EXCEPT !.pc = "reading", !.sid = storageId])
                /\ notebooks' = Collect(notebooks, notebook, tasks')
                /\ UNCHANGED <<cellSelected, cellExecuting, cellResults>>

\* promptSave has returned true to the command that awaited it.
Prompted(t) ==
    LET tk == Cur(t)
    IN  /\ tk.pc = "prompted"
        /\ IF tk.cmd = "openNotebook"
           THEN /\ SetTask(t, [Emit(tk, <<Ev("openDialog", 0)>>)
                                  EXCEPT !.pc = "openDialog"])
                /\ notebooks' = Collect(notebooks, notebook, tasks')
                /\ UNCHANGED <<working, cellSelected, cellExecuting, cellResults>>
           ELSE \E notebookId \in OpenTargets(tk.cmd) :
                    beginBlocking(t, tk, notebookId)
        /\ UNCHANGED <<notebook, storage, engine, nbResult, nbEvents, nbReturn>>

\* The user answers the open dialog.
OpenDialog(t) ==
    LET tk == Cur(t)
    IN  /\ tk.pc = "openDialog"
        /\ \/ /\ SetTask(t, Done(tk, "undefined"))
              /\ UNCHANGED <<working, notebooks, cellSelected, cellExecuting, cellResults>>
           \/ \E notebookId \in StorageIds :
                beginBlocking(t, tk, notebookId)
        /\ UNCHANGED <<notebook, storage, engine, nbResult, nbEvents, nbReturn>>

\* readNotebook completes, with the document or with an I/O error; a
\* document that was read is deserialized, which throws on a bad cell.
Reading(t) ==
    LET tk == Cur(t)
        file == FileAt(tk.sid)
    IN  /\ tk.pc = "reading"
        /\ \/ /\ file.exists /\ ~deserializeThrows(file.cells)
              /\ Construct(tk.sid, FALSE, file.readOnly, file.cells)
              /\ SetTask(t, setNotebookBegin(tk, nextInstance))
              /\ UNCHANGED working
           \/ /\ \/ /\ file.exists /\ deserializeThrows(file.cells)
                    /\ SetTask(t, failInTry(tk, "deserialize.failed"))
                 \/ SetTask(t, failInTry(tk, "readNotebook.failed"))
              /\ working' = endBlockingTask(working)
              /\ UNCHANGED <<cellSelected, cellExecuting, cellResults>>
              /\ notebooks' = Collect(notebooks, notebook, tasks')
        /\ UNCHANGED <<notebook, storage, engine, nbResult, nbEvents, nbReturn>>

\* A setNotebook that installs the new notebook before it lets go of the
\* old one.
setNotebookInstallsFirst(old, new, reload) ==
    <<Ev("bind", new), Ev("installNotebook", new)>>
    \o (IF old # Undefined
        THEN <<Ev("detach", old), Ev("stopEvaluation", old)>> ELSE <<>>)
    \o <<Ev("changed", IF reload THEN 1 ELSE 0), Ev("rendered", 0)>>

\* What setNotebook does after will-change: the old notebook is detached
\* and its evaluation stopped, the new one is bound and installed in the
\* evaluator, changed and rendered are raised.
setNotebookEvents(old, new, reload) ==
    (IF old # Undefined
     THEN <<Ev("detach", old), Ev("stopEvaluation", old)>> ELSE <<>>)
    \o <<Ev("bind", new), Ev("installNotebook", new),
         Ev("changed", IF reload THEN 1 ELSE 0), Ev("rendered", 0)>>

\* The evaluation engine, as the editor can tell: `run` when a request to
\* evaluate the open notebook was sent and the engine has neither reported
\* its completion nor been told to stop it; `stale` when a
\* notebook-eval-completed may still arrive for a run that was stopped or
\* for a notebook that has been replaced since.
NoRuns == [run |-> FALSE, stale |-> FALSE]

\* evalNotebook / evalToCell / evalSingleCell
engineEval(e) == [e EXCEPT !.run = TRUE]

\* stopEvaluation of the open notebook: the completion of the run it stops
\* may be on its way already.
engineStop(e) == IF e.run THEN [run |-> FALSE, stale |-> TRUE] ELSE e

\* setNotebook after will-change was raised.
SetNbWillChange(t) ==
    LET tk == Cur(t)
    IN  /\ tk.pc = "setNbWillChange"
        /\ notebook' = tk.nb
        /\ engine' = IF notebook # Undefined THEN engineStop(engine) ELSE engine
        /\ SetTask(t, [Emit(tk, setNotebookEvents(notebook, tk.nb, isReload(tk)))
                          EXCEPT !.pc = "setNbRendered", !.nb = Undefined])
        /\ notebooks' = Collect(notebooks, notebook', tasks')
        /\ UNCHANGED <<working, storage, cellSelected, cellExecuting, cellResults,
                       nbResult, nbEvents, nbReturn>>

\* setNotebook has returned: the rest of the try block and the finally.
\* newNotebook calls select() on the first cell of the open notebook; the
\* cell classes lie outside the sources modelled here, so the call is
\* recorded and what the cell does with it is left to the notebook's
\* selection handlers.
SetNbRendered(t) ==
    LET tk == Cur(t)
    IN  /\ tk.pc = "setNbRendered"
        /\ IF tk.cmd = "newNotebook"
           THEN IF notebooks[notebook].cells = <<>>
                THEN /\ SetTask(t, failInTry(tk, "select.failed"))
                     /\ notebooks' = Collect(notebooks, notebook, tasks')
                     /\ UNCHANGED <<cellSelected, cellExecuting, cellResults>>
                ELSE /\ SetTask(t, Done(Emit(tk,
                                <<Ev("select", notebooks[notebook].cells[1])>>
                                \o endBlockingTaskEvents(working)), "notebook"))
                     /\ notebooks' = Collect(notebooks, notebook, tasks')
                     /\ UNCHANGED <<cellSelected, cellExecuting, cellResults>>
           ELSE /\ SetTask(t, Done(Emit(tk, <<Ev("addRecentFile", tk.sid)>>
                                            \o endBlockingTaskEvents(working)),
                                   "notebook"))
                /\ notebooks' = Collect(notebooks, notebook, tasks')
                /\ UNCHANGED <<cellSelected, cellExecuting, cellResults>>
        /\ working' = endBlockingTask(working)
        /\ UNCHANGED <<notebook, storage, engine, nbResult, nbEvents, nbReturn>>

\* setNotebook throws: a subscriber of the event just raised threw.
SetNotebookThrows(t) ==
    LET tk == Cur(t)
    IN  /\ tk.pc \in {"setNbWillChange", "setNbRendered"}
        /\ SetTask(t, failInTry(tk, "setNotebook.failed"))
        /\ working' = endBlockingTask(working)
        /\ notebooks' = Collect(notebooks, notebook, tasks')
        /\ UNCHANGED <<notebook, storage, engine, cellSelected, cellExecuting, cellResults,
                       nbResult, nbEvents, nbReturn>>

(***************************************************************************)
(* Saving                                                                  *)
(***************************************************************************)
\* The user answers the save-as dialog.
SaveAsDialog(t) ==
    LET tk == Cur(t)
    IN  /\ tk.pc = "saveAsDialog"
        /\ \/ SetTask(t, saveReturn(tk))
           \/ \E newStorageId \in StorageIds :
                SetTask(t, [Emit(tk, <<Ev("willChange", 0)>>) EXCEPT
                               !.pc = "saveAsWillChange", !.sid = newStorageId])
        /\ UNCHANGED <<notebook, working, storage, engine, nbVars>>

\* saveNotebookAs after will-change: notebook.saveAs, up to flushChanges.
SaveAsWillChange(t) ==
    LET tk == Cur(t)
    IN  /\ tk.pc = "saveAsWillChange"
        /\ SetTask(t, saveBegin(tk, notebook, tk.sid, TRUE))
        /\ UNCHANGED <<notebook, working, storage, engine, nbVars>>

\* _save after flushChanges: serialize, then writeNotebook is awaited.
SaveFlush(t) ==
    LET tk == Cur(t)
    IN  /\ tk.pc = "saveFlush"
        /\ SetTask(t, [Emit(tk, <<Ev("writeNotebook", tk.sid)>>) EXCEPT
                          !.pc = "writing", !.doc = serialize(notebooks[tk.nb])])
        /\ UNCHANGED <<notebook, working, storage, engine, nbVars>>

\* saveAs after _save: the notebook is rebound to the new storage id.
saveAsRebindKeepsReadOnly(nb, newNotebookId) ==
    [nb EXCEPT !.unsaved = FALSE, !.storageId = newNotebookId]

saveAsRebind(nb, newNotebookId) ==
    [nb EXCEPT !.unsaved = FALSE, !.storageId = newNotebookId,
               !.readOnly = FALSE]

\* writeNotebook completes: _save clears modified, save/saveAs return.
WriteDone(t) ==
    LET tk == Cur(t)
        cleared == clearModified(notebooks[tk.nb]).nb
    IN  /\ tk.pc = "writing"
        /\ tk.sid \in StorageIds /\ ~FileAt(tk.sid).readOnly
        /\ storage' = [storage EXCEPT ![tk.sid] = File(tk.doc, FALSE)]
        /\ IF tk.saveAs
           THEN /\ SetTask(t, saveReturn(
                              IF tk.cmd \in NbCmds
                              THEN tk
                              ELSE Emit(tk, <<Ev("addRecentFile", tk.sid),
                                              Ev("changed", 0)>>)))
                /\ notebooks' = Collect(
                      [notebooks EXCEPT ![tk.nb] = saveAsRebind(cleared, tk.sid)],
                      notebook, tasks')
           ELSE /\ SetTask(t, saveReturn(tk))
                /\ notebooks' = Collect([notebooks EXCEPT ![tk.nb] = cleared],
                                        notebook, tasks')
        /\ UNCHANGED <<notebook, working, engine, cellSelected, cellExecuting,
                       cellResults, nbResult, nbEvents, nbReturn>>

\* writeNotebook fails: nothing catches the error on the way to the caller.
WriteFails(t) ==
    LET tk == Cur(t)
    IN  /\ tk.pc = "writing"
        /\ SetTask(t, Done(Emit(tk, <<Ev("writeNotebook.failed", 0)>>), "throw"))
        /\ notebooks' = Collect(notebooks, notebook, tasks')
        /\ UNCHANGED <<notebook, working, storage, engine, cellSelected, cellExecuting, cellResults,
                       nbResult, nbEvents, nbReturn>>

(***************************************************************************)
(* Evaluation                                                              *)
(***************************************************************************)
\* cell.cellType
CellType(c) == IF c = 2 THEN "markdown" ELSE "code"

\* notifyCodeEvalStarted: the notebook's own flag.
notifyCodeEvalStarted(nb) == [nb EXCEPT !.executing = TRUE]

\* A notifyCodeEvalComplete that forgets the notebook's flag.
notifyCodeEvalCompleteKeeps(nb) == nb

\* notifyCodeEvalComplete: the notebook's own flag.
notifyCodeEvalComplete(nb) == [nb EXCEPT !.executing = FALSE]

\* cell.notifyNotebookEvalStarted(): the cell hears that the notebook is
\* evaluated; its own executing flag waits for cell-eval-started.
cellNotifyNotebookEvalStarted(executing) == executing

\* cell.notifyCodeEvalStarted(): the cell is marked executing.
cellNotifyCodeEvalStarted(executing) == TRUE

\* cell.notifyCodeEvalComplete(): the cell is no longer marked executing.
cellNotifyCodeEvalComplete(executing) == FALSE

\* The cells a loop over cells reaches: all of them, or those before the
\* first undefined element, on which the method call throws.
LoopReach(cells) ==
    IF HasHole(cells)
    THEN (CHOOSE i \in 1..Len(cells) :
             /\ cells[i] = Undefined
             /\ \A j \in 1..(i - 1) : cells[j] # Undefined) - 1
    ELSE Len(cells)

\* notifyCodeEvalStarted on notebook n: executing is set, every cell is
\* told, eval-started is raised.
NotifyCodeEvalStarted(n) ==
    LET nb == notebooks[n]
        k  == LoopReach(nb.cells)
    IN  /\ notebooks' = [notebooks EXCEPT ![n] = notifyCodeEvalStarted(nb)]
        /\ UNCHANGED cellResults
        /\ cellExecuting' =
              [c \in CellObjs |->
                  IF \E i \in 1..k : nb.cells[i] = c
                  THEN cellNotifyNotebookEvalStarted(cellExecuting[c])
                  ELSE cellExecuting[c]]
        /\ nbReturn' = Undefined
        /\ nbResult' = IF HasHole(nb.cells) THEN "throw" ELSE "ok"
        /\ nbEvents' = [i \in 1..k |-> "notifyNotebookEvalStarted"]
                        \o (IF HasHole(nb.cells) THEN <<>>
                                                 ELSE <<"evalStarted">>)
        /\ UNCHANGED cellSelected
        /\ UNCHANGED edVars

\* notifyCodeEvalComplete on notebook n: executing is cleared, every cell
\* is told, eval-completed is raised.
NotifyCodeEvalComplete(n) ==
    LET nb == notebooks[n]
        k  == LoopReach(nb.cells)
    IN  /\ notebooks' = [notebooks EXCEPT ![n] = notifyCodeEvalComplete(nb)]
        /\ UNCHANGED cellResults
        /\ cellExecuting' =
              [c \in CellObjs |->
                  IF \E i \in 1..k : nb.cells[i] = c
                  THEN cellNotifyCodeEvalComplete(cellExecuting[c])
                  ELSE cellExecuting[c]]
        /\ nbReturn' = Undefined
        /\ nbResult' = IF HasHole(nb.cells) THEN "throw" ELSE "ok"
        /\ nbEvents' = [i \in 1..k |-> "notifyCodeEvalComplete"]
                        \o (IF HasHole(nb.cells) THEN <<>>
                                                 ELSE <<"evalCompleted">>)
        /\ UNCHANGED cellSelected
        /\ UNCHANGED edVars

\* The ids a cell is looked up with: the id of every cell object, and one
\* that no cell has.
UnknownId == NumCells + 1
CellIds == {IdOf(c) : c \in CellObjs} \cup {UnknownId}

\* What a handler of an engine event leaves: how it ended, the cells'
\* executing flags, their outputs and errors, and what was logged.
Handled(result, executing, results, events) ==
    [result |-> result, executing |-> executing, results |-> results,
     events |-> events]

\* cell.addOutput(output): the cell holds one more output.
cellAddOutput(r) == [r EXCEPT !.outputs = @ + 1]

\* cell.addError(error): the cell holds one more error.
cellAddError(r) == [r EXCEPT !.errors = @ + 1]

\* The handler of cell-eval-started.
onCellEvalStarted(nb, executing, results, cellId) ==
    LET found == findCell(nb, cellId)
    IN  IF found.result = "throw"
        THEN Handled("throw", executing, results, <<>>)
        ELSE IF found.value # Undefined
        THEN Handled("ok", [executing EXCEPT ![found.value] =
                                cellNotifyCodeEvalStarted(@)], results, <<>>)
        ELSE Handled("ok", executing, results, <<"log.error">>)

\* The handler of cell-eval-completed.
onCellEvalCompleted(nb, executing, results, cellId) ==
    LET found == findCell(nb, cellId)
    IN  IF found.result = "throw"
        THEN Handled("throw", executing, results, <<>>)
        ELSE IF found.value # Undefined
        THEN Handled("ok", [executing EXCEPT ![found.value] =
                                cellNotifyCodeEvalComplete(@)], results, <<>>)
        ELSE Handled("ok", executing, results, <<"log.error">>)

\* A receive-display loop that gives up at the first cell it cannot find.
RECURSIVE onReceiveDisplayStops(_, _, _, _)
onReceiveDisplayStops(nb, executing, results, outputs) ==
    IF outputs = <<>>
    THEN Handled("ok", executing, results, <<>>)
    ELSE LET found == findCell(nb, Head(outputs))
         IN  IF found.result = "throw"
             THEN Handled("throw", executing, results, <<>>)
             ELSE IF found.value # Undefined
             THEN onReceiveDisplayStops(
                     nb, executing,
                     [results EXCEPT ![found.value] = cellAddOutput(@)],
                     Tail(outputs))
             ELSE Handled("ok", executing, results, <<"log.error">>)

\* The handler of receive-display: outputs holds the cell id of each
\* output of the event, in order.
RECURSIVE onReceiveDisplay(_, _, _, _)
onReceiveDisplay(nb, executing, results, outputs) ==
    IF outputs = <<>>
    THEN Handled("ok", executing, results, <<>>)
    ELSE LET found == findCell(nb, Head(outputs))
         IN  IF found.result = "throw"
             THEN Handled("throw", executing, results, <<>>)
             ELSE IF found.value # Undefined
             THEN onReceiveDisplay(
                     nb, executing,
                     [results EXCEPT ![found.value] = cellAddOutput(@)],
                     Tail(outputs))
             ELSE LET rest == onReceiveDisplay(nb, executing, results,
                                               Tail(outputs))
                  IN  [rest EXCEPT !.events = <<"log.error">> \o @]

\* The position (1-based) of the first code cell of cells, 0 when there
\* is none; the loop throws at an undefined element before it.
FirstCodeCell(cells) ==
    IF \E k \in 1..LoopReach(cells) : CellType(cells[k]) = "code"
    THEN CHOOSE k \in 1..LoopReach(cells) :
            /\ CellType(cells[k]) = "code"
            /\ \A j \in 1..(k - 1) : CellType(cells[j]) # "code"
    ELSE 0

\* A reportError that drops the error when the named cell is not found.
reportErrorNoFallback(nb, executing, results, cellId) ==
    LET found == IF cellId = Undefined THEN Answer("ok", Undefined)
                                       ELSE findCell(nb, cellId)
    IN  IF found.result = "throw"
        THEN Handled("throw", executing, results, <<>>)
        ELSE IF found.value # Undefined
        THEN Handled("ok", executing,
                     [results EXCEPT ![found.value] = cellAddError(@)], <<>>)
        ELSE Handled("ok", executing, results, <<"log.error">>)

\* reportError, the handler of receive-error: cellId is Undefined when the
\* event names no cell.
reportError(nb, executing, results, cellId) ==
    LET found == IF cellId = Undefined THEN Answer("ok", Undefined)
                                       ELSE findCell(nb, cellId)
        first == FirstCodeCell(nb.cells)
    IN  IF found.result = "throw"
        THEN Handled("throw", executing, results, <<>>)
        ELSE IF found.value # Undefined
        THEN Handled("ok", executing,
                     [results EXCEPT ![found.value] = cellAddError(@)], <<>>)
        ELSE IF first # 0
        THEN Handled("ok", executing,
                     [results EXCEPT ![nb.cells[first]] = cellAddError(@)],
                     <<>>)
        ELSE IF HasHole(nb.cells)
        THEN Handled("throw", executing, results, <<>>)
        ELSE Handled("ok", executing, results, <<"log.error">>)

\* An engine event was handled for notebook n.
Handle(n, h) ==
    /\ cellExecuting' = h.executing
    /\ cellResults' = h.results
    /\ nbReturn' = Undefined
    /\ nbResult' = h.result
    /\ nbEvents' = h.events
    /\ UNCHANGED <<notebooks, cellSelected>>
    /\ UNCHANGED edVars

\* The engine reports cell-eval-started.
CellEvalStarted(n) ==
    \E cellId \in CellIds :
        Handle(n, onCellEvalStarted(notebooks[n], cellExecuting, cellResults,
                                    cellId))

\* The engine reports cell-eval-completed.
CellEvalCompleted(n) ==
    \E cellId \in CellIds :
        Handle(n, onCellEvalCompleted(notebooks[n], cellExecuting,
                                      cellResults, cellId))

\* The cell ids the engine sends with outputs and errors: it evaluates
\* code cells, which may have left the notebook since, or never were in it.
EngineCellIds == {IdOf(c) : c \in {d \in CellObjs : CellType(d) = "code"}}
                    \cup {UnknownId}

MaxOutputs == 2
MaxResults == 2

\* The engine reports receive-display with up to MaxOutputs outputs.
ReceiveDisplay(n) ==
    \E outputs \in UNION {[1..k -> EngineCellIds] : k \in 0..MaxOutputs} :
        LET h == onReceiveDisplay(notebooks[n], cellExecuting, cellResults,
                                  outputs)
        IN  /\ \A c \in CellObjs : h.results[c].outputs <= MaxResults
            /\ Handle(n, h)

\* The engine reports receive-error, for a cell or for none.
ReceiveError(n) ==
    \E cellId \in EngineCellIds \cup {Undefined} :
        LET h == reportError(notebooks[n], cellExecuting, cellResults, cellId)
        IN  /\ \A c \in CellObjs : h.results[c].errors <= MaxResults
            /\ Handle(n, h)

\* The engine sends an event no handler is registered for.
UnhandledEvent(n) ==
    Handle(n, Handled("ok", cellExecuting, cellResults, <<"log.error">>))

\* The cells the evaluate commands are called with, a code cell and a
\* markdown cell.
EvalCells == {1, 2}

\* The cell argument of an evaluate command: evaluateNotebook has none.
EvalArgs(cmd) == IF cmd = "evaluateNotebook" THEN {Undefined} ELSE EvalCells

\* A precondition check that lets every command through.
alwaysCanEvaluate == [can |-> TRUE, events |-> <<>>]

\* checkCanEvaluateNotebook: the verdict and what it emits.
checkCanEvaluateNotebook ==
    IF isWorking(working)
    THEN [can |-> FALSE, events |-> <<Ev("warn", 0)>>]
    ELSE IF notebook = Undefined
    THEN [can |-> FALSE, events |-> <<Ev("warn", 0)>>]
    ELSE IF notebooks[notebook].readOnly
    THEN [can |-> FALSE, events |-> <<Ev("notification.error", 0)>>]
    ELSE [can |-> TRUE, events |-> <<>>]

\* The engine call of each evaluate command.
evalCall(cmd) ==
    CASE cmd = "evaluateNotebook" -> "evalNotebook"
      [] cmd = "evaluateToCell" -> "evalToCell"
      [] OTHER -> "evalSingleCell"

\* evaluateNotebook / evaluateToCell / evaluateSingleCell up to the first
\* await, on checkCanEvaluateNotebook.
evaluate ==
    \E cmd \in EvalCmds : \E cell \in EvalArgs(cmd) :
        /\ CanStart
        /\ StartTask([Emit(Begin(cmd), checkCanEvaluateNotebook.events) EXCEPT
                          !.pc = "evalChecked",
                          !.cell = cell,
                          !.proceed = checkCanEvaluateNotebook.can])
        /\ UNCHANGED <<notebook, working, storage, engine, nbVars>>

\* A restart that stops the run and dispatches the new one at once.
stopAndDispatch(tk, n) ==
    Done(Emit(tk, <<Ev("stopEvaluation", n), Ev(evalCall(tk.cmd), n),
                    Ev("evalStarted", n)>>), "void")

\* The restart rule: the engine is told to stop and completion is notified.
stopAndComplete(tk, n) ==
    Done(Emit(tk, <<Ev("stopEvaluation", n), Ev("evalCompleted", n)>>), "void")

\* After checkCanEvaluateNotebook: the restart rule, or flushChanges.
EvalChecked(t) ==
    LET tk == Cur(t)
    IN  /\ tk.pc = "evalChecked"
        /\ IF ~tk.proceed
           THEN /\ SetTask(t, Done(tk, "void"))
                /\ UNCHANGED notebooks
           ELSE IF notebook = Undefined
           THEN /\ SetTask(t, Done(Emit(tk, <<Ev("warn", 0)>>), "void"))
                /\ UNCHANGED notebooks
           ELSE IF notebooks[notebook].executing
           THEN /\ SetTask(t, stopAndComplete(tk, notebook))
                /\ notebooks' = [notebooks EXCEPT ![notebook] =
                                    notifyCodeEvalComplete(@)]
           ELSE /\ SetTask(t, [Emit(tk, <<Ev("flushChanges", notebook)>>)
                                  EXCEPT !.pc = "evalFlush"])
                /\ UNCHANGED notebooks
        /\ engine' = IF /\ tk.proceed
                        /\ notebook # Undefined
                        /\ notebooks[notebook].executing
                     THEN engineStop(engine)
                     ELSE engine
        /\ UNCHANGED <<notebook, working, storage, cellSelected, cellExecuting, cellResults,
                       nbResult, nbEvents, nbReturn>>

\* A dispatch that names the first cell whatever cell was asked for.
dispatchFirstCell(tk, n) ==
    <<Ev(evalCall(tk.cmd), n)>>
    \o (IF tk.cell # Undefined THEN <<Ev("cellId", IdOf(1))>> ELSE <<>>)

\* The request to the engine: the call on the notebook's instance with
\* serializeForEval(), and the id of the cell for evalToCell and
\* evalSingleCell.
dispatch(tk, n) ==
    <<Ev(evalCall(tk.cmd), n)>>
    \o (IF tk.cell # Undefined THEN <<Ev("cellId", IdOf(tk.cell))>> ELSE <<>>)

\* After flushChanges: evaluateSingleCell gives up on a cell that is not a
\* code cell; otherwise the request goes to the engine and eval-started is
\* notified.
EvalFlush(t) ==
    LET tk == Cur(t)
    IN  /\ tk.pc = "evalFlush"
        /\ IF tk.cmd = "evaluateSingleCell" /\ CellType(tk.cell) # "code"
           THEN /\ SetTask(t, Done(Emit(tk, <<Ev("warn", 0)>>), "void"))
                /\ UNCHANGED notebooks
           ELSE /\ SetTask(t, Done(Emit(tk, dispatch(tk, notebook)
                                            \o <<Ev("evalStarted", notebook)>>),
                                   "void"))
                /\ notebooks' = [notebooks EXCEPT ![notebook] =
                                    notifyCodeEvalStarted(@)]
        /\ engine' = IF tk.cmd = "evaluateSingleCell" /\ CellType(tk.cell) # "code"
                     THEN engine
                     ELSE engineEval(engine)
        /\ UNCHANGED <<notebook, working, storage, cellSelected, cellExecuting, cellResults,
                       nbResult, nbEvents, nbReturn>>

\* The engine reports notebook-eval-completed, for the run of the open
\* notebook or for one that was stopped or belongs to a former notebook;
\* the handler does not look at the event's arguments.
NotebookEvalCompleted ==
    /\ ~Urgent
    /\ notebook # Undefined
    /\ \E from \in {"run", "stale"} :
          /\ engine[from]
          /\ engine' = [engine EXCEPT ![from] = FALSE]
    /\ notebooks' = [notebooks EXCEPT ![notebook] = notifyCodeEvalComplete(@)]
    /\ returned' = NoReturn
    /\ UNCHANGED <<notebook, working, storage, tasks, cellSelected, cellExecuting, cellResults,
                   nbResult, nbEvents, nbReturn>>

\* A cell of the open notebook reports that it was modified.
CellModified ==
    /\ ~Urgent
    /\ notebook # Undefined
    /\ ~notebooks[notebook].modified
    /\ notebooks' = [notebooks EXCEPT ![notebook] = notifyModified(@).nb]
    /\ returned' = NoReturn
    /\ UNCHANGED <<notebook, working, storage, engine, tasks, cellSelected, cellExecuting, cellResults,
                   nbResult, nbEvents, nbReturn>>

(***************************************************************************)
(* The editor with its collaborators                                       *)
(***************************************************************************)
\* What the storage holds at the start: a notebook file, and files that
\* do not deserialize.
InitialStorage ==
    [s \in StorageIds |-> IF s = 1 THEN File(newNotebookTemplate, FALSE)
                                   ELSE File(<<BadCell>>, FALSE)]

EdInit ==
    /\ notebooks = [n \in Instances |-> NoNotebook]
    /\ cellSelected = [c \in CellObjs |-> FALSE]
    /\ cellExecuting = [c \in CellObjs |-> FALSE]
    /\ cellResults = [c \in CellObjs |-> NoResults]
    /\ nbResult = "ok"
    /\ nbReturn = Undefined
    /\ nbEvents = <<>>
    /\ notebook = Undefined
    /\ working = 0
    /\ storage = InitialStorage
    /\ tasks = EmptyBag
    /\ returned = NoReturn
    /\ engine = NoRuns

EdNext ==
    \/ newNotebook
    \/ openNotebook
    \/ openSpecificNotebook
    \/ reloadNotebook
    \/ saveNotebook
    \/ saveNotebookAs
    \/ \E t \in Runnable : ConfirmChoice(t)
    \/ \E t \in Runnable : Prompted(t)
    \/ \E t \in Runnable : OpenDialog(t)
    \/ \E t \in Runnable : Reading(t)
    \/ \E t \in Runnable : SetNbWillChange(t)
    \/ \E t \in Runnable : SetNbRendered(t)
    \/ \E t \in Runnable : SetNotebookThrows(t)
    \/ \E t \in Runnable : SaveAsDialog(t)
    \/ \E t \in Runnable : SaveAsWillChange(t)
    \/ \E t \in Runnable : SaveFlush(t)
    \/ \E t \in Runnable : WriteDone(t)
    \/ \E t \in Runnable : WriteFails(t)
    \/ CellModified

EdSpec == EdInit /\ [][EdNext]_vars

\* The editor with the evaluation engine: the evaluate commands, the
\* engine's completion event, and newNotebook and openSpecificNotebook to
\* open a notebook.
EvNext ==
    \/ newNotebook
    \/ openSpecificNotebook
    \/ evaluate
    \/ \E t \in Runnable : Prompted(t)
    \/ \E t \in Runnable : Reading(t)
    \/ \E t \in Runnable : SetNbWillChange(t)
    \/ \E t \in Runnable : SetNbRendered(t)
    \/ \E t \in Runnable : SetNotebookThrows(t)
    \/ \E t \in Runnable : EvalChecked(t)
    \/ \E t \in Runnable : EvalFlush(t)
    \/ NotebookEvalCompleted

\* What the storage holds there: a notebook file, and read-only ones.
EvStorage ==
    [s \in StorageIds |-> File(newNotebookTemplate, s # 1)]

EvInit ==
    /\ notebooks = [n \in Instances |-> NoNotebook]
    /\ cellSelected = [c \in CellObjs |-> FALSE]
    /\ cellExecuting = [c \in CellObjs |-> FALSE]
    /\ cellResults = [c \in CellObjs |-> NoResults]
    /\ nbResult = "ok"
    /\ nbReturn = Undefined
    /\ nbEvents = <<>>
    /\ notebook = Undefined
    /\ working = 0
    /\ storage = EvStorage
    /\ tasks = EmptyBag
    /\ returned = NoReturn
    /\ engine = NoRuns

EvSpec == EvInit /\ [][EvNext]_vars

\* The editor saving notebooks it created or opened, some of them from
\* read-only files.
EdSaveNext ==
    \/ newNotebook
    \/ openSpecificNotebook
    \/ saveNotebook
    \/ saveNotebookAs
    \/ \E t \in Runnable : ConfirmChoice(t)
    \/ \E t \in Runnable : Prompted(t)
    \/ \E t \in Runnable : Reading(t)
    \/ \E t \in Runnable : SetNbWillChange(t)
    \/ \E t \in Runnable : SetNbRendered(t)
    \/ \E t \in Runnable : SetNotebookThrows(t)
    \/ \E t \in Runnable : SaveAsDialog(t)
    \/ \E t \in Runnable : SaveAsWillChange(t)
    \/ \E t \in Runnable : SaveFlush(t)
    \/ \E t \in Runnable : WriteDone(t)
    \/ \E t \in Runnable : WriteFails(t)
    \/ CellModified

EdSaveSpec == EvInit /\ [][EdSaveNext]_vars

(***************************************************************************)
(* The notebook on its own                                                *)
(***************************************************************************)
\* The cells a notebook is constructed with: distinct cell objects.
MaxInitialCells == 2

NoRepeat(s) == \A i, j \in 1..Len(s) : i # j => s[i] # s[j]

InitialCells ==
    {s \in UNION {[1..k -> CellObjs] : k \in 0..MaxInitialCells} : NoRepeat(s)}

NbInit ==
    /\ \E cells \in InitialCells :
           notebooks = [n \in Instances |->
                           IF n = TheNotebook
                           THEN NotebookViewModel(1, cells, FALSE, FALSE)
                           ELSE NoNotebook]
    /\ cellSelected = [c \in CellObjs |-> FALSE]
    /\ cellExecuting = [c \in CellObjs |-> FALSE]
    /\ cellResults = [c \in CellObjs |-> NoResults]
    /\ nbResult = "ok"
    /\ nbReturn = Undefined
    /\ nbEvents = <<>>
    /\ notebook = Undefined
    /\ working = 0
    /\ storage = [s \in StorageIds |-> NoFile]
    /\ tasks = EmptyBag
    /\ returned = NoReturn
    /\ engine = NoRuns

NbNext ==
    \/ AddCell(TheNotebook)
    \/ DeleteCell(TheNotebook)
    \/ MoveCell(TheNotebook)
    \/ SelectionChanging(TheNotebook)
    \/ SelectionChanged(TheNotebook)
    \/ CellSelect(TheNotebook)
    \/ Deselect(TheNotebook)

NbSpec == NbInit /\ [][NbNext]_vars

\* The notebook's evaluation lifecycle: the notifications of the editor
\* and the cell events of the engine, while cells are added and deleted.
NbEvalNext ==
    \/ AddCell(TheNotebook)
    \/ DeleteCell(TheNotebook)
    \/ NotifyCodeEvalStarted(TheNotebook)
    \/ NotifyCodeEvalComplete(TheNotebook)
    \/ CellEvalStarted(TheNotebook)
    \/ CellEvalCompleted(TheNotebook)

NbEvalSpec == NbInit /\ [][NbEvalNext]_vars

\* The events of the evaluation engine, as the editor handles them for
\* the notebook.
NbEventNext ==
    \/ CellEvalStarted(TheNotebook)
    \/ CellEvalCompleted(TheNotebook)
    \/ ReceiveDisplay(TheNotebook)
    \/ ReceiveError(TheNotebook)
    \/ UnhandledEvent(TheNotebook)

NbEventSpec == NbInit /\ [][NbEventNext]_vars

\* A query of notebook n: it returns, raises nothing and assigns no field.
Query(n, answer) ==
    /\ nbResult' = answer.result
    /\ nbReturn' = answer.value
    /\ nbEvents' = <<>>
    /\ UNCHANGED <<notebooks, cellSelected, cellExecuting, cellResults>>
    /\ UNCHANGED edVars

FindCell(n) ==
    \E cellId \in CellIds : Query(n, findCell(notebooks[n], cellId))

FindNextCell(n) ==
    \E cellId \in CellIds : Query(n, findNextCell(notebooks[n], cellId))

FindPrevCell(n) ==
    \E cellId \in CellIds : Query(n, findPrevCell(notebooks[n], cellId))

\* The notebook's lookups, while cells are added, deleted and moved.
NbFindNext ==
    \/ AddCell(TheNotebook)
    \/ DeleteCell(TheNotebook)
    \/ MoveCell(TheNotebook)
    \/ FindCell(TheNotebook)
    \/ FindNextCell(TheNotebook)
    \/ FindPrevCell(TheNotebook)

NbFindSpec == NbInit /\ [][NbFindNext]_vars

(***************************************************************************)
(* The notebook with its storage: save and saveAs called on it directly    *)
(***************************************************************************)
NumVersions == 1
NodejsVersions == 1..NumVersions

MaxSaves == 1

\* notebook.save() is called.
Save(n) ==
    /\ ~Urgent
    /\ BagCardinality(tasks) < MaxSaves
    /\ StartTask(save(Begin("save"), n))
    /\ UNCHANGED <<notebook, working, storage, engine, nbVars>>

\* notebook.saveAs(newNotebookId) is called.
SaveAs(n) ==
    /\ ~Urgent
    /\ BagCardinality(tasks) < MaxSaves
    /\ \E newNotebookId \in StorageIds :
          StartTask(saveBegin(Begin("saveAs"), n, newNotebookId, TRUE))
    /\ UNCHANGED <<notebook, working, storage, engine, nbVars>>

\* notebook.setNodejsVersion(version) is called.
SetNodejsVersion(n) ==
    \E version \in NodejsVersions :
        LET m == setNodejsVersion(notebooks[n], version)
        IN  /\ Apply(n, Outcome(m.nb, cellSelected, "ok", m.events))
            /\ UNCHANGED edVars

\* notebook.setModified(modified) is called.
SetModified(n) ==
    \E modified \in BOOLEAN :
        LET m == setModified(notebooks[n], modified)
        IN  /\ Apply(n, Outcome(m.nb, cellSelected, "ok", m.events))
            /\ UNCHANGED edVars

\* A cell the notebook is hooked to raises onModified.
OnCellModified(n) ==
    \E cell \in notebooks[n].hooked :
        LET m == onCellModified(notebooks[n], cell)
        IN  /\ Apply(n, Outcome(m.nb, cellSelected, "ok", m.events))
            /\ UNCHANGED edVars

\* Where the notebook came from: created by newNotebook, or read from a
\* file that can be written, or from one that is read-only.
Origins == {"new", "opened", "readOnly"}

NbSaveInitOf(initialCells, storageIds) ==
    /\ \E cells \in initialCells, storageId \in storageIds, origin \in Origins :
          /\ notebooks =
                [n \in Instances |->
                    IF n = TheNotebook
                    THEN NotebookViewModel(
                            IF origin = "new" THEN UntitledId ELSE storageId,
                            cells, origin = "new", origin = "readOnly")
                    ELSE NoNotebook]
          /\ storage =
                [s \in StorageIds |->
                    IF origin # "new" /\ s = storageId
                    THEN File(cells, origin = "readOnly")
                    ELSE NoFile]
    /\ cellSelected = [c \in CellObjs |-> FALSE]
    /\ cellExecuting = [c \in CellObjs |-> FALSE]
    /\ cellResults = [c \in CellObjs |-> NoResults]
    /\ nbResult = "ok"
    /\ nbReturn = Undefined
    /\ nbEvents = <<>>
    /\ notebook = TheNotebook
    /\ working = 0
    /\ tasks = EmptyBag
    /\ returned = NoReturn
    /\ engine = NoRuns

NbSaveInit == NbSaveInitOf(InitialCells, StorageIds)

NbSaveNext ==
    \/ SetNodejsVersion(TheNotebook)
    \/ SetModified(TheNotebook)
    \/ OnCellModified(TheNotebook)
    \/ Save(TheNotebook)
    \/ SaveAs(TheNotebook)
    \/ \E t \in Runnable : SaveFlush(t)
    \/ \E t \in Runnable : WriteDone(t)
    \/ \E t \in Runnable : WriteFails(t)

NbSaveSpec == NbSaveInit /\ [][NbSaveNext]_vars

\* The notebook with its storage while its cells are edited: notebooks of
\* at most MaxSavedCells cells, moveCell called with the indices its
\* contract allows, a notebook that was read coming from the first file.
MaxSavedCells == 1

NbEditInit ==
    NbSaveInitOf({cells \in InitialCells : Len(cells) <= MaxSavedCells},
                 {CHOOSE s \in StorageIds : \A r \in StorageIds : s <= r})

NbEditNext ==
    \/ /\ Len(notebooks[TheNotebook].cells) < MaxSavedCells
       /\ AddCell(TheNotebook)
    \/ DeleteCell(TheNotebook)
    \/ MoveCellInRange(TheNotebook)
    \/ SetNodejsVersion(TheNotebook)
    \/ OnCellModified(TheNotebook)
    \/ Save(TheNotebook)
    \/ SaveAs(TheNotebook)
    \/ \E t \in Runnable : SaveFlush(t)
    \/ \E t \in Runnable : WriteDone(t)
    \/ \E t \in Runnable : WriteFails(t)

NbEditSpec == NbEditInit /\ [][NbEditNext]_vars

(***************************************************************************)
(* C1: in every reachable state of a notebook, selectedCell is undefined   *)
(* or a cell that is currently a member of cells.                          *)
(***************************************************************************)
C1_SelectedCellIsMember ==
    LET nb == notebooks[TheNotebook]
    IN  nb.selectedCell # Undefined =>
            \E i \in 1..Len(nb.cells) : nb.cells[i] = nb.selectedCell

(***************************************************************************)
(* Steps of the commands, as the claims below speak of them               *)
(***************************************************************************)
\* Command t ran to its next await in this step and is now u.
Stepped(t, u) ==
    /\ tasks' = (tasks (-) SetToBag({t})) (+) SetToBag({u})
    /\ returned' = NoReturn

\* Command t returned (or threw) in this step.
Left(t) ==
    /\ tasks' = tasks (-) SetToBag({t})
    /\ returned'.result # "none"

\* The first thing the step of command t recorded is e.
Began(t, e) ==
    \/ /\ Left(t)
       /\ returned'.trace # <<>>
       /\ Head(returned'.trace) = Ev(e, 0)
    \/ \E u \in BagToSet(tasks') :
          /\ Stepped(t, u)
          /\ u.trace # <<>>
          /\ Head(u.trace) = Ev(e, 0)

\* A command was called in this step: it is suspended at its first await,
\* or it returned without reaching one.
Invoked ==
    \/ BagCardinality(tasks') > BagCardinality(tasks)
    \/ tasks' = tasks /\ returned'.result # "none"

\* How many commands in flight are at one of the positions pcs.
Count(pcs) ==
    BagCardinality([t \in {x \in Tasks : x.pc \in pcs} |-> tasks[t]])

\* The positions inside setNotebook.
InSetNotebook == {"setNbWillChange", "setNbRendered"}

\* The positions between startBlockingTask and endBlockingTask.
Blocking == {"reading", "setNbWillChange", "setNbRendered"}

(***************************************************************************)
(* C2: the working counter never exceeds 1 through the commands that       *)
(* replace the open notebook, and two executions of setNotebook never      *)
(* overlap.                                                                *)
(***************************************************************************)
C2_OneReplacingCommandAtATime ==
    /\ working <= 1
    /\ Count(InSetNotebook) <= 1

(***************************************************************************)
(* C3: while a read or a write of newNotebook, openNotebook, saveNotebook  *)
(* or reloadNotebook is in flight, the busy counter is held (working > 0). *)
(***************************************************************************)
C3_BusyDuringStorageIO ==
    \A t \in Tasks :
        (/\ t.cmd \in {"newNotebook", "openNotebook", "saveNotebook",
                       "reloadNotebook"}
         /\ t.pc \in {"reading", "writing"}) => working > 0

(***************************************************************************)
(* C4: every increment of working is matched by one decrement, also when   *)
(* reading, deserializing or setNotebook throws: working counts exactly    *)
(* the commands between their startBlockingTask and endBlockingTask, it is *)
(* 0 once every command has returned or thrown, and it is never negative.  *)
(***************************************************************************)
C4_WorkingBalanced ==
    /\ working >= 0
    /\ working = Count(Blocking)
    /\ tasks = EmptyBag => working = 0

\* setNotebook threw inside newNotebook, and the counter is back at 0.
C4_ReleasedAfterThrow ==
    /\ tasks = EmptyBag
    /\ working = 0
    /\ returned.result = "throw"
    /\ returned.trace = <<Ev("setNotebook.failed", 0), Ev("endBlockingTask", 0)>>

(***************************************************************************)
(* C5: a file command called while working > 0 issues a warning and        *)
(* returns at once; the open notebook and its flags, the working counter   *)
(* and the storage are unchanged, no dialog is shown and no evaluator call *)
(* is made.                                                                *)
(***************************************************************************)
C5_BusyRejected ==
    [][(working > 0 /\ Invoked) =>
          /\ tasks' = tasks
          /\ returned'.trace = <<Ev("warn", 0)>>
          /\ returned'.result \in {"undefined", "void"}
          /\ UNCHANGED <<notebook, notebooks, working, storage>>]_vars

\* A command was just turned away because the editor was busy.
C5_RejectedWhileBusy ==
    /\ working > 0
    /\ returned = [result |-> "undefined", trace |-> <<Ev("warn", 0)>>]

(***************************************************************************)
(* C6: when the user cancels at the save prompt, the command returns       *)
(* without doing anything else: the same notebook stays open with its      *)
(* flags as they were, working and the storage are unchanged, and there is *)
(* no read, no setNotebook and no evaluator call.                          *)
(***************************************************************************)
C6_CancelAborts ==
    [][\A t \in Tasks :
          (t.pc = "confirmDialog" /\ Began(t, "Cancel")) =>
              /\ Left(t)
              /\ returned'.trace = <<Ev("Cancel", 0)>>
              /\ returned'.result \in {"undefined", "void"}
              /\ UNCHANGED <<notebook, notebooks, working, storage>>]_vars

\* The user has just cancelled, and the modified notebook is still open.
C6_CancelledKeepsModified ==
    /\ returned.trace = <<Ev("Cancel", 0)>>
    /\ notebook # Undefined
    /\ notebooks[notebook].modified

(***************************************************************************)
(* C7: when readNotebook or deserialize fails in an open or reload         *)
(* command, the error is logged and shown once, the command returns        *)
(* undefined, the notebook that was open is still open and unchanged, no   *)
(* will-change or changed event is raised and the engine is told neither   *)
(* to stop nor to install.                                                 *)
(***************************************************************************)
C7_OpenFailureContained ==
    [][\A t \in Tasks :
          (/\ t.pc = "reading"
           /\ \/ Began(t, "readNotebook.failed")
              \/ Began(t, "deserialize.failed")) =>
              /\ Left(t)
              /\ returned'.result = "undefined"
              /\ Tail(returned'.trace) =
                     <<Ev("log.error", 0), Ev("log.error", 0),
                       Ev("notification.error", 0), Ev("endBlockingTask", 0)>>
              /\ notebook' = notebook
              /\ notebook # Undefined =>
                     notebooks'[notebook] = notebooks[notebook]
              /\ storage' = storage]_vars

\* Deserialization has just failed while a notebook was open.
C7_FailedWithNotebookOpen ==
    /\ notebook # Undefined
    /\ returned.result = "undefined"
    /\ returned.trace # <<>>
    /\ Head(returned.trace) = Ev("deserialize.failed", 0)

(***************************************************************************)
(* C8: when writeNotebook fails inside saveNotebook or saveNotebookAs, the *)
(* error does not reach the caller: it is caught, shown as one             *)
(* notification, and the notebook's state is as before the save.           *)
(***************************************************************************)
C8_SaveFailureCaught ==
    [][\A t \in Tasks :
          (t.pc = "writing" /\ Began(t, "writeNotebook.failed")) =>
              /\ returned'.result # "throw"
              /\ \E i \in 1..Len(returned'.trace) :
                     returned'.trace[i] = Ev("notification.error", 0)
              /\ notebooks'[t.nb] = notebooks[t.nb]]_vars

(***************************************************************************)
(* C9: setNotebook raises will-change; then, if a notebook is open, it     *)
(* detaches from it and calls stopEvaluation with its instanceId; then it  *)
(* binds the new notebook and calls installNotebook with its instanceId;   *)
(* then it raises changed with isReload; then it raises rendered.          *)
(***************************************************************************)
C9_SetNotebookOrder ==
    [][\A t \in Tasks : \A u \in BagToSet(tasks') :
          (/\ t.pc = "setNbWillChange"
           /\ u.pc = "setNbRendered"
           /\ Stepped(t, u)) =>
              /\ t.trace[Len(t.trace)] = Ev("willChange", 0)
              /\ u.trace =
                    (IF notebook # Undefined
                     THEN <<Ev("detach", notebook),
                            Ev("stopEvaluation", notebook)>>
                     ELSE <<>>)
                    \o <<Ev("bind", t.nb), Ev("installNotebook", t.nb),
                         Ev("changed",
                            IF t.cmd = "reloadNotebook" THEN 1 ELSE 0),
                         Ev("rendered", 0)>>
              /\ notebook' = t.nb]_vars

\* setNotebook has just replaced a notebook that was open.
C9_ReplacedOpenNotebook ==
    \E t \in Tasks :
        /\ t.pc = "setNbRendered"
        /\ Len(t.trace) = 6
        /\ t.trace[2].e = "stopEvaluation"
        /\ t.trace[4] = Ev("installNotebook", notebook)

(***************************************************************************)
(* C10: an evaluate command that passed checkCanEvaluateNotebook while the *)
(* open notebook is executing calls stopEvaluation with the notebook's     *)
(* instanceId, then notifies completion, which sets executing to false,    *)
(* and returns without calling evalNotebook, evalToCell or                 *)
(* evalSingleCell.                                                         *)
(***************************************************************************)
C10_RestartStopsRun ==
    [][\A t \in Tasks :
          (/\ t.pc = "evalChecked"
           /\ t.proceed
           /\ notebook # Undefined
           /\ notebooks[notebook].executing
           /\ tasks' # tasks) =>
              /\ Left(t)
              /\ returned'.trace = <<Ev("stopEvaluation", notebook),
                                     Ev("evalCompleted", notebook)>>
              /\ notebook' = notebook
              /\ ~notebooks'[notebook].executing]_vars

\* An evaluate command has just cancelled the run of the open notebook.
C10_RunCancelled ==
    /\ notebook # Undefined
    /\ ~notebooks[notebook].executing
    /\ returned.trace = <<Ev("stopEvaluation", notebook),
                          Ev("evalCompleted", notebook)>>

\* C10 without the precondition check: every evaluate command called while
\* the open notebook is executing, busy editor included, stops the run and
\* notifies completion.
C10_RestartWheneverExecuting ==
    [][\A t \in Tasks :
          (/\ t.pc = "evalChecked"
           /\ notebook # Undefined
           /\ notebooks[notebook].executing
           /\ tasks' # tasks) =>
              /\ Left(t)
              /\ returned'.trace = <<Ev("stopEvaluation", notebook),
                                     Ev("evalCompleted", notebook)>>
              /\ ~notebooks'[notebook].executing]_vars

(***************************************************************************)
(* The notebook's operations, as the claims below speak of them            *)
(***************************************************************************)
\* The notebook before and after a step.
Nb == notebooks[TheNotebook]

NbAfter == notebooks'[TheNotebook]

\* The step is addCell(c, i) on the notebook.
AddCellStep(c, i) == Apply(TheNotebook, addCell(Nb, cellSelected, c, i))

\* The step is deleteCell(c, selectNextCell) on the notebook.
DeleteCellStep(c, selectNextCell) ==
    Apply(TheNotebook, deleteCell(Nb, cellSelected, c, selectNextCell))

\* Event e is among the events the operation raised.
Raised(events, e) == \E k \in 1..Len(events) : events[k] = e

\* Cell c is a member of cells.
Present(cells, c) == \E k \in 1..Len(cells) : cells[k] = c

\* s without its k-th element.
Without(s, k) == SubSeq(s, 1, k - 1) \o SubSeq(s, k + 1, Len(s))

(***************************************************************************)
(* C15: cell ids are unique within a notebook in every reachable state:    *)
(* no two positions of cells hold cells with the same id.                  *)
(***************************************************************************)
C15_CellIdsUnique ==
    \A i, j \in 1..Len(Nb.cells) :
        (/\ i # j
         /\ Nb.cells[i] # Undefined
         /\ Nb.cells[j] # Undefined) => IdOf(Nb.cells[i]) # IdOf(Nb.cells[j])

(***************************************************************************)
(* C16: on a notebook whose cells are all cell objects, addCell(c, i) with *)
(* 0 <= i <= len(cells) yields a sequence of length len + 1 with c at      *)
(* position i and the other cells in their original relative order; it    *)
(* raises cells-changed and leaves modified true.                          *)
(***************************************************************************)
C16_AddCellInserts ==
    [][\A c \in CellObjs, i \in Indices :
          (/\ 0 <= i
           /\ i <= Len(Nb.cells)
           /\ ~HasHole(Nb.cells)
           /\ AddCellStep(c, i)) =>
              /\ nbResult' = "ok"
              /\ Len(NbAfter.cells) = Len(Nb.cells) + 1
              /\ NbAfter.cells[i + 1] = c
              /\ Without(NbAfter.cells, i + 1) = Nb.cells
              /\ Raised(nbEvents', "cellsChanged")
              /\ NbAfter.modified]_vars

\* addCell has just inserted a third cell into a notebook that was not
\* modified before.
C16_CellAddedInside ==
    /\ nbResult = "ok"
    /\ nbEvents = <<"flushChanges", "cellsChanged", "modified">>
    /\ Len(Nb.cells) = 3
    /\ ~HasHole(Nb.cells)

(***************************************************************************)
(* C17: addCell(c, i) with i > len(cells) throws and leaves cells and the  *)
(* modified flag unchanged.                                                *)
(***************************************************************************)
C17_AddCellBeyondRangeThrows ==
    [][\A c \in CellObjs, i \in Indices :
          (/\ i > Len(Nb.cells)
           /\ AddCellStep(c, i)) =>
              /\ nbResult' = "throw"
              /\ NbAfter.cells = Nb.cells
              /\ NbAfter.modified = Nb.modified
              /\ ~Raised(nbEvents', "cellsChanged")]_vars

\* addCell has just thrown on its index: flushChanges went through, on a
\* notebook that holds cells.
C17_AddCellThrew ==
    /\ nbResult = "throw"
    /\ nbEvents = <<"flushChanges">>
    /\ ~HasHole(Nb.cells)
    /\ Nb.cells # <<>>

(***************************************************************************)
(* C18: addCell(c, i) with i < 0 throws without inserting the cell         *)
(* anywhere in cells.                                                      *)
(***************************************************************************)
C18_AddCellBelowZeroThrows ==
    [][\A c \in CellObjs, i \in Indices :
          (/\ i < 0
           /\ AddCellStep(c, i)) =>
              /\ nbResult' = "throw"
              /\ NbAfter.cells = Nb.cells]_vars

(***************************************************************************)
(* C19: on a notebook whose cells are all cell objects, deleteCell for a   *)
(* cell whose id is present removes exactly one element, the one with that *)
(* id, and keeps the relative order of the remaining cells; it raises      *)
(* cells-changed and leaves modified true.                                 *)
(***************************************************************************)
C19_DeleteCellRemovesOne ==
    [][\A c \in CellObjs, selectNextCell \in BOOLEAN :
          (/\ Present(Nb.cells, c)
           /\ ~HasHole(Nb.cells)
           /\ DeleteCellStep(c, selectNextCell)) =>
              /\ nbResult' = "ok"
              /\ \E k \in 1..Len(Nb.cells) :
                    /\ IdOf(Nb.cells[k]) = IdOf(c)
                    /\ NbAfter.cells = Without(Nb.cells, k)
              /\ Raised(nbEvents', "cellsChanged")
              /\ NbAfter.modified]_vars

(***************************************************************************)
(* C20: deleteCell for a cell whose id is not in the notebook throws and   *)
(* leaves cells, selectedCell and the modified flag unchanged, raising no  *)
(* cells-changed event.                                                    *)
(***************************************************************************)
C20_DeleteAbsentThrows ==
    [][\A c \in CellObjs, selectNextCell \in BOOLEAN :
          (/\ ~Present(Nb.cells, c)
           /\ DeleteCellStep(c, selectNextCell)) =>
              /\ nbResult' = "throw"
              /\ NbAfter.cells = Nb.cells
              /\ NbAfter.selectedCell = Nb.selectedCell
              /\ NbAfter.modified = Nb.modified
              /\ ~Raised(nbEvents', "cellsChanged")]_vars

\* deleteCell has just thrown on a notebook that holds cells, one of them
\* selected.
C20_DeleteThrew ==
    /\ nbResult = "throw"
    /\ nbEvents = <<>>
    /\ ~HasHole(Nb.cells)
    /\ Nb.cells # <<>>
    /\ Nb.selectedCell # Undefined

(***************************************************************************)
(* C13: notifyCodeEvalStarted sets executing to true, signals every cell,  *)
(* then raises eval-started; notifyCodeEvalComplete sets executing to      *)
(* false, tells every cell, so that no cell of the notebook remains marked *)
(* executing, then raises eval-completed.  Calling either a second time    *)
(* leaves the executing state as the first call left it.                   *)
(***************************************************************************)
C13_EvalLifecycle ==
    [][/\ NotifyCodeEvalStarted(TheNotebook) =>
             /\ NbAfter.executing
             /\ nbEvents' = [i \in 1..Len(Nb.cells) |->
                                "notifyNotebookEvalStarted"]
                            \o <<"evalStarted">>
             /\ notifyCodeEvalStarted(NbAfter).executing = NbAfter.executing
       /\ NotifyCodeEvalComplete(TheNotebook) =>
             /\ ~NbAfter.executing
             /\ \A i \in 1..Len(NbAfter.cells) :
                   ~cellExecuting'[NbAfter.cells[i]]
             /\ nbEvents' = [i \in 1..Len(Nb.cells) |->
                                "notifyCodeEvalComplete"]
                            \o <<"evalCompleted">>
             /\ notifyCodeEvalComplete(NbAfter).executing = NbAfter.executing
      ]_vars

\* notifyCodeEvalComplete has just run on a notebook of two cells.
C13_EvalCompleted ==
    /\ ~Nb.executing
    /\ Len(Nb.cells) = 2
    /\ nbEvents = <<"notifyCodeEvalComplete", "notifyCodeEvalComplete",
                    "evalCompleted">>

(***************************************************************************)
(* Steps of the evaluate commands                                          *)
(***************************************************************************)
\* The calls to the evaluation engine that start an evaluation.
EvalCalls == {"evalNotebook", "evalToCell", "evalSingleCell"}

\* Event name e is among the events of trace tr.
Emitted(tr, e) == \E k \in 1..Len(tr) : tr[k].e = e

\* The request command t owes the engine for the open notebook: the call
\* of its scope, with the id of its cell where the scope has one.
Request(t) ==
    IF t.cmd = "evaluateNotebook"
    THEN <<Ev("evalNotebook", notebook)>>
    ELSE <<Ev(IF t.cmd = "evaluateToCell" THEN "evalToCell"
                                          ELSE "evalSingleCell", notebook),
           Ev("cellId", IdOf(t.cell))>>

(***************************************************************************)
(* C11: an evaluate command called while the editor is busy, or while no   *)
(* notebook is open, or while the open notebook is read-only, makes no     *)
(* call to the evaluator (no eval call, no stopEvaluation), does not       *)
(* flush, and leaves executing (and all else of the notebooks) unchanged.  *)
(***************************************************************************)
C11_PreconditionGuards ==
    [][\A t \in Tasks :
          (/\ t.pc = "evalChecked"
           /\ \/ isWorking(working)
              \/ notebook = Undefined
              \/ notebooks[notebook].readOnly
           /\ tasks' # tasks) =>
              /\ Left(t)
              /\ \A e \in EvalCalls \cup {"stopEvaluation", "flushChanges"} :
                    ~Emitted(returned'.trace, e)
              /\ notebooks' = notebooks]_vars

\* An evaluate command has just been turned away on a read-only notebook.
C11_ReadOnlyRejected ==
    /\ notebook # Undefined
    /\ notebooks[notebook].readOnly
    /\ ~notebooks[notebook].executing
    /\ returned = [result |-> "void", trace |-> <<>>]

(***************************************************************************)
(* C12: an evaluate command that passed the precondition check on a        *)
(* notebook that is not executing flushes pending edits (its first step);  *)
(* when the flush is through it sends exactly one request to the engine,   *)
(* of its scope and with the id of its cell, then notifies eval-started,   *)
(* after which executing is true.  The one exception: evaluateSingleCell   *)
(* on a cell that is not a code cell warns after the flush and sends       *)
(* nothing.                                                                *)
(***************************************************************************)
C12_FlushThenDispatch ==
    [][\A t \in Tasks :
          /\ (/\ t.pc = "evalChecked"
              /\ t.proceed
              /\ notebook # Undefined
              /\ ~notebooks[notebook].executing
              /\ tasks' # tasks) =>
                 \E u \in BagToSet(tasks') :
                    /\ Stepped(t, u)
                    /\ u.pc = "evalFlush"
                    /\ u.trace = <<Ev("flushChanges", notebook)>>
                    /\ notebooks' = notebooks
          /\ (/\ t.pc = "evalFlush"
              /\ Left(t)) =>
                 IF t.cmd = "evaluateSingleCell" /\ CellType(t.cell) # "code"
                 THEN /\ returned'.trace = <<Ev("warn", 0)>>
                      /\ notebooks' = notebooks
                 ELSE /\ returned'.trace =
                            Request(t) \o <<Ev("evalStarted", notebook)>>
                      /\ notebooks'[notebook].executing]_vars

\* evaluateToCell has just sent its request for the markdown cell.
C12_DispatchedToCell ==
    /\ notebook # Undefined
    /\ notebooks[notebook].executing
    /\ returned.trace = <<Ev("evalToCell", notebook), Ev("cellId", 2),
                          Ev("evalStarted", notebook)>>

\* C12 without the exception: every evaluate command that got through its
\* flush sends its one request to the engine and notifies eval-started.
C12_AlwaysDispatches ==
    [][\A t \in Tasks :
          (/\ t.pc = "evalFlush"
           /\ Left(t)) =>
              /\ returned'.trace = Request(t) \o <<Ev("evalStarted", notebook)>>
              /\ notebooks'[notebook].executing]_vars

(***************************************************************************)
(* C14: every serialization sent to the evaluation engine (with            *)
(* installNotebook and the eval calls) and every serialization passed to   *)
(* writeNotebook is preceded, in the command that makes it, by             *)
(* flushChanges on the same notebook.                                      *)
(***************************************************************************)
C14_FlushBeforeSerialize ==
    [][\A t \in Tasks : \A u \in BagToSet(tasks') \cup {returned'} :
          (\/ Left(t) /\ u = returned'
           \/ Stepped(t, u) /\ u \in BagToSet(tasks')) =>
              \A k \in 1..Len(u.trace) :
                 /\ u.trace[k].e \in EvalCalls \cup {"installNotebook"} =>
                       \/ \E j \in 1..Len(t.trace) :
                             t.trace[j] = Ev("flushChanges", u.trace[k].a)
                       \/ \E j \in 1..(k - 1) :
                             u.trace[j] = Ev("flushChanges", u.trace[k].a)
                 /\ u.trace[k].e = "writeNotebook" =>
                       \E j \in 1..Len(t.trace) :
                          t.trace[j] = Ev("flushChanges", t.nb)]_vars

(***************************************************************************)
(* C21: deleteCell of a present cell, asked to select the next cell,       *)
(* selects the new last cell when the deleted cell was the last of the     *)
(* sequence and a cell remains, nothing when the only cell was deleted,    *)
(* and otherwise the cell that is now at the deleted cell's former index;  *)
(* with selectNextCell false it selects no cell.  (On a notebook whose     *)
(* cells are all cell objects.)                                            *)
(***************************************************************************)
\* The cell the claim says is selected, Undefined for none.
C21_Target(cells, after, c) ==
    LET idx == CHOOSE k \in 1..Len(cells) :
                  cells[k] = c /\ \A j \in 1..(k - 1) : cells[j] # c
    IN  IF idx = Len(cells)
        THEN (IF after # <<>> THEN after[Len(after)] ELSE Undefined)
        ELSE (IF idx <= Len(after) THEN after[idx] ELSE Undefined)

C21_DeleteSelectsNext ==
    [][\A c \in CellObjs, selectNextCell \in BOOLEAN :
          (/\ Present(Nb.cells, c)
           /\ ~HasHole(Nb.cells)
           /\ DeleteCellStep(c, selectNextCell)) =>
              LET target == C21_Target(Nb.cells, NbAfter.cells, c)
              IN  IF selectNextCell /\ target # Undefined
                  THEN /\ cellSelected'[target]
                       /\ NbAfter.selectedCell = target
                       /\ \A d \in CellObjs \ {target} :
                             cellSelected'[d] =
                                (cellSelected[d] /\ d # Nb.selectedCell)
                  ELSE /\ cellSelected' = cellSelected
                       /\ NbAfter.selectedCell = Nb.selectedCell]_vars

\* deleteCell has just selected the cell that is now the last one.
C21_SelectedAfterDelete ==
    /\ nbResult = "ok"
    /\ Len(nbEvents) >= 2
    /\ nbEvents[1] = "cellsChanged"
    /\ nbEvents[2] = "selectedCellChanged"
    /\ ~HasHole(Nb.cells)
    /\ Len(Nb.cells) = 2
    /\ Nb.selectedCell = Nb.cells[2]
    /\ cellSelected[Nb.cells[2]]

(***************************************************************************)
(* C22: for valid indices, moveCell(src, dst) removes the element at src   *)
(* and inserts it at index dst of the sequence after the removal: the      *)
(* moved cell is at index dst, the other cells keep their relative order;  *)
(* on [A,B,C], moveCell(0,2) gives [B,C,A], moveCell(2,0) gives [C,A,B]    *)
(* and moveCell(0,1) gives [B,A,C].  It raises cells-changed and leaves    *)
(* modified true.                                                          *)
(***************************************************************************)
\* The step is moveCell(src, dst) on the notebook.
MoveCellStep(src, dst) ==
    Apply(TheNotebook, moveCell(Nb, cellSelected, src, dst))

\* The indices of the cells of the notebook.
ValidIndices == 0..(Len(Nb.cells) - 1)

C22_MoveCellSplices ==
    [][\A src \in ValidIndices, dst \in ValidIndices :
          MoveCellStep(src, dst) =>
              /\ nbResult' = "ok"
              /\ Len(NbAfter.cells) = Len(Nb.cells)
              /\ NbAfter.cells[dst + 1] = Nb.cells[src + 1]
              /\ Without(NbAfter.cells, dst + 1) = Without(Nb.cells, src + 1)
              /\ Raised(nbEvents', "cellsChanged")
              /\ NbAfter.modified
              /\ Len(Nb.cells) = 3 =>
                    LET a == Nb.cells[1]
                        b == Nb.cells[2]
                        c == Nb.cells[3]
                    IN  /\ (src = 0 /\ dst = 2) => NbAfter.cells = <<b, c, a>>
                        /\ (src = 2 /\ dst = 0) => NbAfter.cells = <<c, a, b>>
                        /\ (src = 0 /\ dst = 1) => NbAfter.cells = <<b, a, c>>
      ]_vars

\* moveCell has just reordered a notebook of three different cells, none
\* of them selected.
C22_MovedAmongThree ==
    /\ nbResult = "ok"
    /\ nbEvents = <<"cellsChanged">>
    /\ Nb.modified
    /\ Len(Nb.cells) = 3
    /\ ~HasHole(Nb.cells)
    /\ NoRepeat(Nb.cells)
    /\ Nb.selectedCell = Undefined

(***************************************************************************)
(* C23: for valid indices, moveCell(src, dst) followed by                  *)
(* moveCell(dst, src) restores the original order of the cells.            *)
(***************************************************************************)
C23_MoveBackRestores ==
    [][\A src \in ValidIndices, dst \in ValidIndices :
          MoveCellStep(src, dst) =>
              moveCell(NbAfter, cellSelected', dst, src).nb.cells = Nb.cells
      ]_vars

\* moveCell has just moved a cell of a notebook of three different cells
\* to another place.
C23_MovedElsewhere ==
    /\ nbResult = "ok"
    /\ nbEvents = <<"cellsChanged">>
    /\ Len(Nb.cells) = 3
    /\ ~HasHole(Nb.cells)
    /\ NoRepeat(Nb.cells)
    /\ Nb.selectedCell = Nb.cells[1]

\* The cell sequences of the notebooks examined.
CellSeqs == UNION {[1..k -> CellObjs] : k \in 0..MaxCells}

\* C23 as claimed: there are a cell sequence and valid indices src # dst
\* for which moveCell(src, dst) followed by moveCell(dst, src) does not
\* restore the original order.
C23_SomeMoveBackDiffers ==
    \E cells \in CellSeqs :
       \E src \in 0..(Len(cells) - 1), dst \in 0..(Len(cells) - 1) :
          LET nb    == [Nb EXCEPT !.cells = cells]
              moved == moveCell(nb, cellSelected, src, dst).nb
          IN  /\ src # dst
              /\ moveCell(moved, cellSelected, dst, src).nb.cells # cells

(***************************************************************************)
(* C24: findCell, findNextCell and findPrevCell never fail.  With index    *)
(* the position findCellIndex finds (the first cell having the id):        *)
(* findCell returns undefined for an unknown id and the cell at index      *)
(* otherwise; findNextCell returns undefined for an unknown id or the last *)
(* position, otherwise the cell at index+1; findPrevCell returns undefined *)
(* for an unknown id or the first position, otherwise the cell at          *)
(* index-1.  None of them changes the notebook.                            *)
(***************************************************************************)
\* The 1-based position of the first cell with the id, 0 when no cell
\* has it.
FirstWithId(cells, cellId) ==
    IF \E k \in 1..Len(cells) : IdOf(cells[k]) = cellId
    THEN CHOOSE k \in 1..Len(cells) :
            /\ IdOf(cells[k]) = cellId
            /\ \A j \in 1..(k - 1) : IdOf(cells[j]) # cellId
    ELSE 0

\* The step returned value and left the notebook as it was.
Answered(value) ==
    /\ nbResult' = "ok"
    /\ nbReturn' = value
    /\ nbEvents' = <<>>
    /\ NbAfter = Nb
    /\ cellSelected' = cellSelected

SaveSucceeded ==
    \E t \in Tasks :
        /\ t.pc = "writing"
        /\ t.nb = TheNotebook
        /\ Left(t)
        /\ returned'.result = "void"

\* The step is the notebook operation with outcome m (notebook and events).
NotifiedStep(m) ==
    Apply(TheNotebook, Outcome(m.nb, cellSelected, "ok", m.events))

C25_ModifiedSinceSave ==
    /\ ~Nb.modified
    /\ [][/\ SaveSucceeded => ~NbAfter.modified
          /\ (Nb.modified /\ ~NbAfter.modified) => SaveSucceeded
          /\ \/ NbAfter.modified
             \/ /\ \A c \in CellObjs, i \in Indices :
                      ~(AddCellStep(c, i) /\ nbResult' = "ok")
                /\ \A c \in CellObjs, selectNextCell \in BOOLEAN :
                      ~(DeleteCellStep(c, selectNextCell) /\ nbResult' = "ok")
                /\ \A src \in ValidIndices, dst \in ValidIndices :
                      ~MoveCellStep(src, dst)
                /\ \A version \in NodejsVersions :
                      ~NotifiedStep(setNodejsVersion(Nb, version))
                /\ \A cell \in Nb.hooked :
                      ~NotifiedStep(onCellModified(Nb, cell))
        ]_vars

\* A notebook that was edited has just been saved: it holds a cell and a
\* nodejs version, its file holds the cell, and it is not modified.
C25_SavedAfterEdits ==
    /\ returned.result = "void"
    /\ tasks = EmptyBag
    /\ ~Nb.modified
    /\ Nb.nodejsVersion # Undefined
    /\ Len(Nb.cells) = 1
    /\ Nb.storageId \in StorageIds
    /\ FileAt(Nb.storageId).cells = Nb.cells

(***************************************************************************)
(* C26: setModified(v) with v equal to the current value of modified       *)
(* raises no onModified event and changes nothing; with another value it   *)
(* stores v and raises onModified once.  Every call so raises as many      *)
(* events as it changes the flag (one or none).                            *)
(***************************************************************************)
C26_SetModifiedOncePerChange ==
    [][\A v \in BOOLEAN :
          NotifiedStep(setModified(Nb, v)) =>
              /\ IF v = Nb.modified
                 THEN nbEvents' = <<>> /\ NbAfter = Nb
                 ELSE /\ nbEvents' = <<"modified">>
                      /\ NbAfter = [Nb EXCEPT !.modified = v]
              /\ Len(nbEvents') = IF NbAfter.modified # Nb.modified THEN 1 ELSE 0
      ]_vars

\* setModified(true) has just been called on a notebook that was already
\* modified: no cell and no version made it so, and nothing was raised.
C26_SetModifiedAgain ==
    /\ Nb.modified
    /\ Nb.cells = <<>>
    /\ Nb.nodejsVersion = Undefined
    /\ nbResult = "ok"
    /\ nbEvents = <<>>

(***************************************************************************)
(* C27: save() on a read-only notebook fails with ReadOnlyViolation and    *)
(* save() on a notebook that was never saved fails with NeverSaved; in     *)
(* both cases nothing is flushed, nothing is written to storage, and       *)
(* storageId, unsaved, readOnly and modified are unchanged.                *)
(***************************************************************************)
\* The step is a call of save() on the notebook.
SaveStep == Save(TheNotebook)

C27_SaveRejected ==
    [][(SaveStep /\ (Nb.readOnly \/ Nb.unsaved)) =>
          /\ returned'.result = "throw"
          /\ returned'.trace =
                <<Ev(IF Nb.readOnly THEN "ReadOnlyViolation" ELSE "NeverSaved",
                     TheNotebook)>>
          /\ ~Emitted(returned'.trace, "flushChanges")
          /\ ~Emitted(returned'.trace, "writeNotebook")
          /\ tasks' = tasks
          /\ storage' = storage
          /\ NbAfter.storageId = Nb.storageId
          /\ NbAfter.unsaved = Nb.unsaved
          /\ NbAfter.readOnly = Nb.readOnly
          /\ NbAfter.modified = Nb.modified
      ]_vars

\* save() has just failed on a modified notebook that was never saved.
C27_SaveNeverSaved ==
    /\ returned.result = "throw"
    /\ returned.trace = <<Ev("NeverSaved", TheNotebook)>>
    /\ Nb.unsaved
    /\ Nb.modified
    /\ Nb.storageId = UntitledId
    /\ tasks = EmptyBag

(***************************************************************************)
(* C28: when saveAs(newStorageId) returns successfully the notebook has    *)
(* unsaved = false, readOnly = false, storageId = newStorageId and         *)
(* modified = false, whatever the flags were; when its write fails,        *)
(* unsaved, readOnly and storageId keep their previous values.             *)
(***************************************************************************)
C28_SaveAsRebinds ==
    [][\A t \in Tasks :
          (t.saveAs /\ t.pc = "writing" /\ t.nb = TheNotebook /\ Left(t)) =>
              IF returned'.result = "void"
              THEN /\ ~NbAfter.unsaved
                   /\ ~NbAfter.readOnly
                   /\ NbAfter.storageId = t.sid
                   /\ ~NbAfter.modified
                   /\ FileAt(t.sid)' = File(t.doc, FALSE)
              ELSE /\ returned'.result = "throw"
                   /\ NbAfter.unsaved = Nb.unsaved
                   /\ NbAfter.readOnly = Nb.readOnly
                   /\ NbAfter.storageId = Nb.storageId
                   /\ storage' = storage
      ]_vars

\* A notebook read from a read-only file has just been saved as another
\* file.
C28_ReadOnlySavedAs ==
    /\ returned.result = "void"
    /\ tasks = EmptyBag
    /\ Nb.storageId \in StorageIds
    /\ ~Nb.readOnly
    /\ ~Nb.unsaved
    /\ ~Nb.modified
    /\ FileAt(Nb.storageId).exists
    /\ \E s \in StorageIds : s # Nb.storageId /\ FileAt(s).readOnly

(***************************************************************************)
(* C29: saveNotebook, called by the user or by promptSave, goes to the     *)
(* save-as workflow when the open notebook is unsaved or read-only and     *)
(* otherwise saves in place to the notebook's storageId; the notebook's    *)
(* save() never fails with NeverSaved or ReadOnlyViolation.                *)
(***************************************************************************)
\* Where saveNotebook has taken command u for the open notebook.
RoutedBySaveNotebook(u) ==
    IF notebooks[notebook].unsaved \/ notebooks[notebook].readOnly
    THEN /\ u.pc = "saveAsDialog"
         /\ u.trace[Len(u.trace)] = Ev("saveAsDialog", 0)
         /\ ~Emitted(u.trace, "flushChanges")
    ELSE /\ u.pc = "saveFlush"
         /\ u.nb = notebook
         /\ u.sid = notebooks[notebook].storageId
         /\ ~u.saveAs
         /\ u.trace[Len(u.trace)] = Ev("flushChanges", notebook)

C29_SaveNotebookRoutes ==
    [][/\ (saveNotebook /\ ~isWorking(working) /\ notebook # Undefined) =>
             \E u \in BagToSet(tasks') :
                /\ tasks' = tasks (+) SetToBag({u})
                /\ u.cmd = "saveNotebook"
                /\ RoutedBySaveNotebook(u)
       /\ \A t \in Tasks :
             (/\ t.pc = "confirmDialog"
              /\ Began(t, "Save")
              /\ ~isWorking(working)
              /\ notebook # Undefined) =>
                 \E u \in BagToSet(tasks') :
                    Stepped(t, u) /\ RoutedBySaveNotebook(u)
       /\ ~Emitted(returned'.trace, "NeverSaved")
       /\ ~Emitted(returned'.trace, "ReadOnlyViolation")
      ]_vars

\* saveNotebook has taken a notebook that was read from a read-only file
\* to the save-as dialog.
C29_ReadOnlyRoutedToSaveAs ==
    /\ notebook # Undefined
    /\ notebooks[notebook].readOnly
    /\ \E t \in Tasks : t.cmd = "saveNotebook" /\ t.pc = "saveAsDialog"

(***************************************************************************)
(* C30: when a hooked cell reports a committed selection, the notebook     *)
(* sets selectedCell to that cell and raises selection-changed only if     *)
(* the cell is not already selectedCell; a report naming the selected cell *)
(* raises nothing and changes nothing.  When a hooked cell reports that it *)
(* is about to be selected, the previously selected cell is deselected     *)
(* and selectedCell is cleared.                                            *)
(***************************************************************************)
\* The step is the report of cell c that its selection is committed.
SelectionChangedStep(c) ==
    LET s == onEditorSelectionChanged(Nb, c)
    IN  Apply(TheNotebook,
              Outcome(s.nb, [cellSelected EXCEPT ![c] = TRUE], "ok", s.events))

\* The step is the report of cell c that its selection is about to change.
SelectionChangingStep(c, willBeSelected) ==
    LET d == onEditorSelectionChanging(Nb, cellSelected, c, willBeSelected)
    IN  Apply(TheNotebook, Outcome(d.nb, d.sel, "ok", <<>>))

C30_SelectionReports ==
    [][\A c \in Nb.hooked :
          /\ SelectionChangedStep(c) =>
                IF Nb.selectedCell = c
                THEN nbEvents' = <<>> /\ NbAfter = Nb
                ELSE /\ nbEvents' = <<"selectedCellChanged">>
                     /\ NbAfter = [Nb EXCEPT !.selectedCell = c]
          /\ SelectionChangingStep(c, TRUE) =>
                /\ NbAfter = [Nb EXCEPT !.selectedCell = Undefined]
                /\ \A d \in CellObjs :
                      cellSelected'[d] =
                         (cellSelected[d] /\ d # Nb.selectedCell)
                /\ nbEvents' = <<>>
          /\ SelectionChangingStep(c, FALSE) =>
                NbAfter = Nb /\ cellSelected' = cellSelected
      ]_vars

\* A cell has just reported a committed selection while another cell of
\* the notebook still had its selected flag set.
C30_SelectionCommitted ==
    /\ nbResult = "ok"
    /\ nbEvents = <<"selectedCellChanged">>
    /\ Nb.selectedCell # Undefined
    /\ cellSelected[Nb.selectedCell]
    /\ \E d \in CellObjs :
          d # Nb.selectedCell /\ Present(Nb.cells, d) /\ cellSelected[d]

(***************************************************************************)
(* C31: a receive-error event attaches the error to exactly one cell or    *)
(* to none: to the named cell when a cell id is given and found;           *)
(* otherwise to the first code cell in document order; and when the        *)
(* notebook has no code cell the error is only logged and no cell changes. *)
(***************************************************************************)
\* The step is the handling of receive-error for cellId.
ReceiveErrorStep(cellId) ==
    Handle(TheNotebook, reportError(Nb, cellExecuting, cellResults, cellId))

\* The cell a receive-error for cellId is owed to, Undefined when none.
ErrorTarget(cells, cellId) ==
    IF cellId # Undefined /\ FirstWithId(cells, cellId) # 0
    THEN cells[FirstWithId(cells, cellId)]
    ELSE IF \E k \in 1..Len(cells) : CellType(cells[k]) = "code"
    THEN cells[CHOOSE k \in 1..Len(cells) :
                  /\ CellType(cells[k]) = "code"
                  /\ \A j \in 1..(k - 1) : CellType(cells[j]) = "markdown"]
    ELSE Undefined

C31_ErrorRouted ==
    [][\A cellId \in EngineCellIds \cup {Undefined} :
          (ReceiveErrorStep(cellId) /\ ~HasHole(Nb.cells)) =>
              LET target == ErrorTarget(Nb.cells, cellId)
              IN  /\ nbResult' = "ok"
                  /\ NbAfter = Nb
                  /\ cellExecuting' = cellExecuting
                  /\ \A c \in CellObjs :
                        /\ cellResults'[c].outputs = cellResults[c].outputs
                        /\ cellResults'[c].errors =
                              cellResults[c].errors
                                 + (IF c = target THEN 1 ELSE 0)
                  /\ nbEvents' = IF target = Undefined THEN <<"log.error">>
                                                       ELSE <<>>
      ]_vars

\* An error has been attached to the code cell that follows a markdown
\* cell, and to no other.
C31_ErrorOnFirstCodeCell ==
    /\ nbResult = "ok"
    /\ nbEvents = <<>>
    /\ Len(Nb.cells) = 2
    /\ CellType(Nb.cells[1]) = "markdown"
    /\ CellType(Nb.cells[2]) = "code"
    /\ cellResults[Nb.cells[2]].errors = 1
    /\ \A c \in CellObjs \ {Nb.cells[2]} : cellResults[c] = NoResults

(***************************************************************************)
(* C32: a cell-eval-started, cell-eval-completed or receive-display event  *)
(* naming a cell id that is not in the notebook is logged and swallowed:   *)
(* the handler does not throw, no cell's outputs, errors or executing      *)
(* state change on its account, the notebook's executing flag is           *)
(* unchanged, and the other outputs of the same receive-display event are  *)
(* delivered to their cells.  An event with an unknown tag is only logged. *)
(***************************************************************************)
\* No cell of cells has the id.
Unknown(cells, cellId) == FirstWithId(cells, cellId) = 0

\* How many of the outputs name cell c.
RECURSIVE OutputsFor(_, _)
OutputsFor(outputs, c) ==
    IF outputs = <<>> THEN 0
    ELSE (IF Head(outputs) = IdOf(c) THEN 1 ELSE 0)
            + OutputsFor(Tail(outputs), c)

\* How many of the outputs name no cell of cells.
RECURSIVE UnknownOutputs(_, _)
UnknownOutputs(outputs, cells) ==
    IF outputs = <<>> THEN 0
    ELSE (IF Unknown(cells, Head(outputs)) THEN 1 ELSE 0)
            + UnknownOutputs(Tail(outputs), cells)

\* The step logged once and changed nothing.
OnlyLogged ==
    /\ nbResult' = "ok"
    /\ nbEvents' = <<"log.error">>
    /\ NbAfter = Nb
    /\ cellExecuting' = cellExecuting
    /\ cellResults' = cellResults

C32_UnknownCellSwallowed ==
    [][/\ \A cellId \in CellIds :
             (/\ Unknown(Nb.cells, cellId)
              /\ \/ Handle(TheNotebook,
                           onCellEvalStarted(Nb, cellExecuting, cellResults,
                                             cellId))
                 \/ Handle(TheNotebook,
                           onCellEvalCompleted(Nb, cellExecuting, cellResults,
                                               cellId))) => OnlyLogged
       /\ \A outputs \in UNION {[1..k -> EngineCellIds] : k \in 0..MaxOutputs} :
             Handle(TheNotebook,
                    onReceiveDisplay(Nb, cellExecuting, cellResults,
                                     outputs)) =>
                /\ nbResult' = "ok"
                /\ NbAfter = Nb
                /\ cellExecuting' = cellExecuting
                /\ Len(nbEvents') = UnknownOutputs(outputs, Nb.cells)
                /\ \A c \in CellObjs :
                      /\ cellResults'[c].errors = cellResults[c].errors
                      /\ cellResults'[c].outputs =
                            cellResults[c].outputs
                               + (IF Present(Nb.cells, c)
                                  THEN OutputsFor(outputs, c) ELSE 0)
       /\ UnhandledEvent(TheNotebook) => OnlyLogged
      ]_vars

\* One output has been delivered to a cell of the notebook and one
\* failure to find a cell has been logged, with nothing else received.
C32_DeliveredPastUnknown ==
    /\ nbResult = "ok"
    /\ nbEvents = <<"log.error">>
    /\ \E c \in CellObjs :
          /\ Present(Nb.cells, c)
          /\ cellResults[c] = [outputs |-> 1, errors |-> 0]
          /\ \A d \in CellObjs \ {c} : cellResults[d] = NoResults
    /\ \A c \in CellObjs : ~cellExecuting[c]

(***************************************************************************)
(* The notebook document                                                   *)
(*                                                                         *)
(* A document is a record whose fields are those present in the JSON: a    *)
(* field that is absent or undefined is not in its DOMAIN.  The flat       *)
(* document has version, nodejs, language and cells; the legacy document   *)
(* has version, nodejs and a sheet holding language and cells.             *)
(***************************************************************************)
notebookVersion == 3

Has(input, field) == field \in DOMAIN input

\* The constructor, given the version and the language as well.
NotebookViewModelOf(storageId, nodejs, language, cells, unsaved, readOnly) ==
    [NotebookViewModel(storageId, cells, unsaved, readOnly)
        EXCEPT !.nodejsVersion = nodejs, !.language = language]

\* getNodejsVersion: nodejsVersion || defaultNodejsVersion.
getNodejsVersion(nb, defaultNodejsVersion) ==
    IF nb.nodejsVersion # Undefined
    THEN nb.nodejsVersion
    ELSE defaultNodejsVersion

\* cell.serialize(): the id and the type of the cell.
cellSerialize(c) == [id |-> IdOf(c), cellType |-> CellType(c)]

\* cellViewModelFactory throws on a cell whose cellType is neither code nor
\* markdown (a missing cellType included).
cellViewModelFactoryThrows(cell) ==
    \/ ~Has(cell, "cellType")
    \/ cell.cellType \notin {"code", "markdown"}

\* cellViewModelFactory: the cell view model the serialized cell describes.
cellViewModelFactory(cell) ==
    CHOOSE c \in CellObjs : cellSerialize(c) = cell

\* serialize, all of the document: the current version, the version of
\* Node.js when there is one, the language and the cells in order.
serializeDocumentNoLanguage(nb) ==
    IF nb.nodejsVersion = Undefined
    THEN [version |-> notebookVersion,
          cells |-> [i \in 1..Len(nb.cells) |-> cellSerialize(nb.cells[i])]]
    ELSE [version |-> notebookVersion, nodejs |-> nb.nodejsVersion,
          cells |-> [i \in 1..Len(nb.cells) |-> cellSerialize(nb.cells[i])]]

serializeDocument(nb) ==
    IF nb.nodejsVersion = Undefined
    THEN [version |-> notebookVersion, language |-> nb.language,
          cells |-> [i \in 1..Len(nb.cells) |-> cellSerialize(nb.cells[i])]]
    ELSE [version |-> notebookVersion, nodejs |-> nb.nodejsVersion,
          language |-> nb.language,
          cells |-> [i \in 1..Len(nb.cells) |-> cellSerialize(nb.cells[i])]]

\* deserialize reads language and cells from input.sheet when there is
\* one, from input otherwise.
DocumentBody(input) == IF Has(input, "sheet") THEN input.sheet ELSE input

\* body.language || "javascript"
documentLanguage(body) ==
    IF Has(body, "language") /\ body.language # ""
    THEN body.language
    ELSE DefaultLanguage

\* body.cells && body.cells.map(cellViewModelFactory) || []: the serialized
\* cells that are mapped.
documentCells(body) == IF Has(body, "cells") THEN body.cells ELSE <<>>

deserializeDocumentThrows(input) ==
    LET cells == documentCells(DocumentBody(input))
    IN  \E i \in 1..Len(cells) : cellViewModelFactoryThrows(cells[i])

deserializeDocumentFlatOnly(storageId, unsaved, readOnly, input) ==
    LET cells == documentCells(input)
    IN  NotebookViewModelOf(
            storageId,
            IF Has(input, "nodejs") THEN input.nodejs ELSE Undefined,
            documentLanguage(input),
            [i \in 1..Len(cells) |-> cellViewModelFactory(cells[i])],
            unsaved, readOnly)

deserializeDocument(storageId, unsaved, readOnly, input) ==
    LET body  == DocumentBody(input)
        cells == documentCells(body)
    IN  NotebookViewModelOf(
            storageId,
            IF Has(input, "nodejs") THEN input.nodejs ELSE Undefined,
            documentLanguage(body),
            [i \in 1..Len(cells) |-> cellViewModelFactory(cells[i])],
            unsaved, readOnly)

\* The place of a document when none was returned.
NoDocument == [version |-> 0]

\* serialize() of notebook n; getId of an undefined element is a TypeError.
Serialize(n) ==
    Query(n, IF HasHole(notebooks[n].cells)
             THEN Answer("throw", NoDocument)
             ELSE Answer("ok", serializeDocument(notebooks[n])))

\* NotebookViewModel.deserialize of input, as for a stored notebook (not
\* unsaved, read-only or not), the result taking the place of notebook n;
\* its cells are new objects.
Deserialize(n, input) ==
    /\ nbReturn' = NoDocument
    /\ nbEvents' = <<>>
    /\ UNCHANGED edVars
    /\ IF deserializeDocumentThrows(input)
       THEN /\ nbResult' = "throw"
            /\ UNCHANGED <<notebooks, cellSelected, cellExecuting,
                           cellResults>>
       ELSE \E readOnly \in BOOLEAN :
              LET nb == deserializeDocument(notebooks[n].storageId, FALSE,
                                            readOnly, input)
                  isNew(c) == \E i \in 1..Len(nb.cells) : nb.cells[i] = c
              IN  /\ nbResult' = "ok"
                  /\ notebooks' = [notebooks EXCEPT ![n] = nb]
                  /\ cellSelected' = [c \in CellObjs |->
                         IF isNew(c) THEN FALSE ELSE cellSelected[c]]
                  /\ cellExecuting' = [c \in CellObjs |->
                         IF isNew(c) THEN FALSE ELSE cellExecuting[c]]
                  /\ cellResults' = [c \in CellObjs |->
                         IF isNew(c) THEN NoResults ELSE cellResults[c]]

\* The languages of the notebooks and documents examined; a document can
\* also carry the empty string, and the constructor accepts it.
Languages == {"javascript", "typescript"}
EmptyLanguage == ""
DocLanguages == Languages \cup {EmptyLanguage}

\* A serialized cell without a cellType.
UntypedCell == [id |-> IdOf(NumCells)]

MaxDocCells == 1

DocCells == {cellSerialize(c) : c \in CellObjs} \cup {UntypedCell}

DocCellSeqs ==
    {s \in UNION {[1..k -> DocCells] : k \in 0..MaxDocCells} :
        \A i, j \in 1..Len(s) : i # j => s[i].id # s[j].id}

\* language and cells, each present or not.
DocBodies ==
    {[language |-> l, cells |-> cs] : l \in DocLanguages, cs \in DocCellSeqs}
    \cup {[language |-> l] : l \in DocLanguages}
    \cup {[cells |-> cs] : cs \in DocCellSeqs}
    \cup {[id |-> "1234"]}

FlatDocuments ==
    {[version |-> notebookVersion] @@ body : body \in DocBodies}
    \cup {[version |-> notebookVersion, nodejs |-> v] @@ body :
             v \in NodejsVersions, body \in DocBodies}

SheetDocuments ==
    {[version |-> 2, sheet |-> body] : body \in DocBodies}
    \cup {[version |-> 2, nodejs |-> v, sheet |-> body] :
             v \in NodejsVersions, body \in DocBodies}

Documents == FlatDocuments \cup SheetDocuments

\* The document serialize returned last, when there is one.
LastSerialized == IF nbReturn = NoDocument THEN {} ELSE {nbReturn}

SerializeNotebook == Serialize(TheNotebook)

DeserializeDocument ==
    \E input \in Documents : Deserialize(TheNotebook, input)

DeserializeSerialized ==
    \E input \in LastSerialized : Deserialize(TheNotebook, input)

NbDocInit ==
    /\ \E cells \in InitialCells, language \in DocLanguages,
          nodejsVersion \in NodejsVersions \cup {Undefined} :
           notebooks = [n \in Instances |->
                           IF n = TheNotebook
                           THEN NotebookViewModelOf(1, nodejsVersion,
                                                    language, cells,
                                                    FALSE, FALSE)
                           ELSE NoNotebook]
    /\ cellSelected = [c \in CellObjs |-> FALSE]
    /\ cellExecuting = [c \in CellObjs |-> FALSE]
    /\ cellResults = [c \in CellObjs |-> NoResults]
    /\ nbResult = "ok"
    /\ nbReturn = NoDocument
    /\ nbEvents = <<>>
    /\ notebook = Undefined
    /\ working = 0
    /\ storage = [s \in StorageIds |-> NoFile]
    /\ tasks = EmptyBag
    /\ returned = NoReturn
    /\ engine = NoRuns

NbDocNext ==
    \/ SerializeNotebook
    \/ DeserializeDocument
    \/ DeserializeSerialized

NbDocSpec == NbDocInit /\ [][NbDocNext]_vars

(***************************************************************************)
(* C33: round trip.  deserialize(serialize(n)) does not throw and has the  *)
(* nodejsVersion of n (so getNodejsVersion gives the same version, or the  *)
(* same default when unset) and the cell sequence of n, in the same order  *)
(* with the same ids and types; it has the language of n when that is not  *)
(* empty, and "javascript" when n was constructed with the empty language. *)
(***************************************************************************)
RoundTrip(nb, doc) ==
    deserializeDocument(nb.storageId, nb.unsaved, nb.readOnly, doc)

SameVersionAndCells(nb, doc) ==
    /\ ~deserializeDocumentThrows(doc)
    /\ RoundTrip(nb, doc).nodejsVersion = nb.nodejsVersion
    /\ \A d \in NodejsVersions :
          getNodejsVersion(RoundTrip(nb, doc), d) = getNodejsVersion(nb, d)
    /\ RoundTrip(nb, doc).cells = nb.cells
    /\ \A i \in 1..Len(nb.cells) :
          /\ doc.cells[i].id = IdOf(nb.cells[i])
          /\ doc.cells[i].cellType = CellType(nb.cells[i])

SheetOrTop(input) == IF "sheet" \in DOMAIN input THEN input.sheet ELSE input

LanguageMissing(input) ==
    \/ "language" \notin DOMAIN SheetOrTop(input)
    \/ SheetOrTop(input).language = ""

CellsMissing(input) == "cells" \notin DOMAIN SheetOrTop(input)

AllCellsTyped(input) ==
    \/ CellsMissing(input)
    \/ \A i \in 1..Len(SheetOrTop(input).cells) :
          /\ "cellType" \in DOMAIN SheetOrTop(input).cells[i]
          /\ SheetOrTop(input).cells[i].cellType \in {"code", "markdown"}

Deserialized(input) == Deserialize(TheNotebook, input)

AddCellRejected(c, i) ==
    /\ i > Len(Nb.cells)
    /\ Apply(TheNotebook, addCell(Nb, cellSelected, c, i))
    /\ nbResult' = "throw"

\* C35: a rejected addCell changes neither the cells nor the set of cells
\* the notebook listens to, and raises no event.
C35_RejectedAddCellLeavesNothing ==
    [][ \A c \in CellObjs, i \in Indices :
          AddCellRejected(c, i) =>
             /\ NbAfter.cells = Nb.cells
             /\ NbAfter.hooked = Nb.hooked
             /\ nbEvents' = <<>> ]_vars

(***************************************************************************)
(* C36: the engine never receives two requests to evaluate a notebook      *)
(* without a stopEvaluation or a completion in between.  executing is set  *)
(* with every request and cleared by the restart rule and by completion    *)
(* only, so a request sent for a notebook that is executing is the second  *)
(* of two such requests.                                                   *)
(***************************************************************************)
\* Evaluate command t has just sent its request to the engine.
Dispatched(t) ==
    /\ t.pc = "evalFlush"
    /\ Left(t)
    /\ \E e \in EvalCalls : Emitted(returned'.trace, e)

\* C36: no evaluate command sends its request to the engine for a notebook
\* that is executing.
C36_OneRunAtATime ==
    [][ \A t \in Tasks :
          Dispatched(t) => ~notebooks[notebook].executing ]_vars

(***************************************************************************)
(* C37: executing is cleared only by the completion of the notebook's      *)
(* current run or by a cancel of the user.  A notebook-eval-completed of a *)
(* run that was stopped, or of a notebook replaced since, leaves executing *)
(* true on the open notebook while the engine still evaluates it.          *)
(***************************************************************************)
\* A notebook-eval-completed of a stopped run or of a former notebook has
\* just been handled.
StaleCompletionHandled ==
    /\ NotebookEvalCompleted
    /\ engine.stale
    /\ ~engine'.stale

\* C37: handling a stale notebook-eval-completed does not clear executing
\* on the open notebook while its own run is with the engine.
C37_StaleCompletionIgnored ==
    [][ (/\ StaleCompletionHandled
         /\ engine.run
         /\ notebooks[notebook].executing) =>
            notebooks'[notebook].executing ]_vars

(***************************************************************************)
(* C38: when a save or saveAs has completed and the notebook is not        *)
(* modified, the document written to storage is the notebook's current     *)
(* serialization; a change made while the write was in flight leaves       *)
(* modified true.                                                          *)
(***************************************************************************)
\* C38: every save or saveAs that completes and leaves the notebook not
\* modified leaves its file holding the serialization of the notebook.
C38_SavedIsCurrent ==
    [][ (SaveSucceeded /\ ~NbAfter.modified) =>
          /\ NbAfter.storageId \in StorageIds
          /\ storage'[NbAfter.storageId].cells = serialize(NbAfter) ]_vars

(***************************************************************************)
(* C39: newNotebook, openNotebook, openSpecificNotebook and reloadNotebook *)
(* go on to replace a modified notebook only when the user chose "Don't    *)
(* save" or the notebook was written to storage.  After "Save", a save-as  *)
(* dialog that is cancelled, or a save turned away because the editor is   *)
(* busy, does not let the command go on.                                   *)
(***************************************************************************)
\* Replacing command t went on past promptSave in this step, from the
\* confirmation dialog or from the save-as dialog, and is now u; the open
\* notebook is modified.
WentOnUnsaved(t, u) ==
    /\ t.cmd \in ReplacingCmds
    /\ t.pc \in {"confirmDialog", "saveAsDialog"}
    /\ u.pc = "prompted"
    /\ Stepped(t, u)
    /\ notebook # Undefined
    /\ notebooks[notebook].modified

\* C39: a replacing command that goes on from one of the dialogs of
\* promptSave while the open notebook is modified does so on the answer
\* "Don't save".
C39_DiscardOnlyOnRequest ==
    [][ \A t \in Tasks : \A u \in BagToSet(tasks') :
          WentOnUnsaved(t, u) => u.trace = <<Ev("Don't save", 0)>> ]_vars

(***************************************************************************)
(* C40: whatever integer indices addCell, deleteCell and moveCell are      *)
(* called with, every element of cells is a cell, never an undefined hole, *)
(* and moveCell changes neither the length of cells nor the set of cells   *)
(* it holds.                                                               *)
(***************************************************************************)
\* The cells a sequence holds.
CellSet(cells) == {cells[k] : k \in 1..Len(cells)}

\* C40: no moveCell, with indices inside or outside the sequence, changes
\* the length of cells or the set of its cells or leaves an undefined
\* element in it.
C40_MoveCellKeepsCells ==
    [][ \A src \in Indices, dst \in Indices :
          (MoveCellStep(src, dst) /\ ~HasHole(Nb.cells)) =>
             /\ Len(NbAfter.cells) = Len(Nb.cells)
             /\ CellSet(NbAfter.cells) = CellSet(Nb.cells)
             /\ ~HasHole(NbAfter.cells) ]_vars

====
